---- MODULE Spec2Model ----
(***************************************************************************)
(* Model of the Combo-AT WiFi driver (src/comboat/comboat.go): the line /  *)
(* frame parser (processUART), the background reader (serviceUART), the    *)
(* command correlator (execute / send) and the socket registry (Socket,    *)
(* Connect, Send, Recv, Close).                                            *)
(*                                                                         *)
(* A byte is a one-character string, a byte slice or Go string a sequence  *)
(* of bytes.  A nil *socket is NULL.  A Go panic (nil dereference, send on *)
(* a closed channel, close of a closed channel) ends the program: the      *)
(* reader's status becomes "panic" and no action is enabled any more.      *)
(***************************************************************************)
EXTENDS Integers, Sequences, FiniteSets, TLC

VARIABLES
    sockets,   \* d.sockets: [0..7] -> NULL or a socket record
    buf,       \* d.buf[:d.pos], the parse buffer
    last,      \* d.last
    uartRx,    \* bytes the UART holds for the reader (uart.Buffered() = Len)
    reader,    \* where the serviceUART goroutine is
    pend,      \* what the reader is blocked sending
    uartMu,    \* holder of d.uartMu
    dLock,     \* holder of the device mutex (d.Mutex)
    readers,   \* serviceUART goroutines started
    pc,        \* per caller: position in its current operation
    op,        \* per caller: the operation, its arguments and its stage
    outcome,   \* per caller: what its last wait in execute/send/Send ended with
    owed,      \* device: commands written that it has not answered yet
    devLeft,   \* device: asynchronous events it may still send
    res,       \* what the operation that returned last returned; cleared when
               \* an operation goes on to write a command
    enq,       \* history: per descriptor, the chunks enqueued on its rx
    got,       \* history: per descriptor, the bytes Recv returned
    fed,       \* history: the bytes the reader has read one by one
    answered   \* history: the plain line the device sent since the last command
               \* was written, or NONE

vars == <<sockets, buf, last, uartRx, reader, pend, uartMu, dLock, readers,
          pc, op, outcome, owed, devLeft, res, enq, got, fed, answered>>

----------------------------------------------------------------------------
(* Program constants *)

NSockets == 8
RxCap == 10
BufCap == 1500

NULL == [nil |-> TRUE]
NONE == "none"
Fds == 0..(NSockets - 1)

(* Bounds of the model *)
MaxRecords == 2     \* records in an input stream of SpecData
MaxRecvBuf == 3     \* largest buffer passed to Recv
MaxTableFd == 1     \* highest slot the initial tables of SpecData vary
MaxConnFd == 0      \* highest descriptor SpecTable varies and SpecLife uses
MaxConcFd == 0      \* highest descriptor Spec allocates
MaxOwed == 2        \* answers the device can owe at a time
MaxEvents == 1      \* asynchronous events the device sends in Spec
MaxNetConnects == 1 \* calls of NetConnect in Spec
MaxQueueUnits == 3  \* units in an input stream of SpecQueue
MaxErrLen == 4      \* bytes in a line given to getErrStr in SpecErr
MaxReadyLen == 5    \* bytes in an input stream of SpecReady
MaxReaders == 2     \* calls of NetConnect in SpecNet
MaxRecvEvents == 3  \* chunks the device sends in SpecRecv
MaxLifeEvents == 2  \* events the device sends in SpecLife

----------------------------------------------------------------------------
(* Byte strings *)

CR == "\r"
LF == "\n"
CRLF == <<CR, LF>>
sEVENT == <<"+","E","V","E","N","T",":">>
sSocketDown == <<"S","o","c","k","e","t","D","o","w","n">>
sSocketDisconnect == <<"S","o","c","k","e","t","D","i","s","c","o","n","n","e","c","t">>
sEventSocketDown == sEVENT \o sSocketDown
sOK == <<"O","K">>
sERROR == <<"E","R","R","O","R">>

HasPrefix(s, p) == Len(s) >= Len(p) /\ SubSeq(s, 1, Len(p)) = p
HasSuffix(s, p) == Len(s) >= Len(p) /\ SubSeq(s, Len(s) - Len(p) + 1, Len(s)) = p

\* bytes.SplitN(s, sep, n) for a one-byte separator; n < 0 splits at every separator
RECURSIVE SplitN(_, _, _)
SplitN(s, sep, n) ==
    IF n = 1 \/ ~(\E i \in 1..Len(s) : s[i] = sep)
    THEN <<s>>
    ELSE LET i == CHOOSE k \in 1..Len(s) :
                      s[k] = sep /\ \A j \in 1..(k - 1) : s[j] # sep
         IN  <<SubSeq(s, 1, i - 1)>> \o SplitN(SubSeq(s, i + 1, Len(s)), sep, n - 1)

Split(s, sep) == SplitN(s, sep, -1)

\* the message split() returns when the part is missing; one token stands for the text
SplitError(on) == <<"Split parts error getting ", on>>

split(resp, part, del, on) ==
    LET parts == Split(resp, del)
    IN  IF part >= Len(parts) THEN SplitError(on) ELSE parts[part + 1]

DigitChars == <<"0","1","2","3","4","5","6","7","8","9">>
IsDigit(c) == \E i \in 1..10 : DigitChars[i] = c
DigitVal(c) == (CHOOSE i \in 1..10 : DigitChars[i] = c) - 1

RECURSIVE DecVal(_)
DecVal(s) == IF s = <<>> THEN 0
             ELSE 10 * DecVal(SubSeq(s, 1, Len(s) - 1)) + DigitVal(s[Len(s)])

\* int has 32 bits on the driver's targets (TinyGo on rp2040 and rp2350): the
\* decimal digits of its largest value and of the magnitude of its smallest
MaxIntDigits == <<"2","1","4","7","4","8","3","6","4","7">>
MinIntDigits == <<"2","1","4","7","4","8","3","6","4","8">>

RECURSIVE StripZeros(_)
StripZeros(ds) == IF Len(ds) > 1 /\ ds[1] = "0" THEN StripZeros(Tail(ds)) ELSE ds

\* ds, without leading zeros, is a number no larger than lim
FitsDigits(ds, lim) ==
    \/ Len(ds) < Len(lim)
    \/ /\ Len(ds) = Len(lim)
       /\ \/ ds = lim
          \/ \E i \in 1..Len(ds) :
                /\ SubSeq(ds, 1, i - 1) = SubSeq(lim, 1, i - 1)
                /\ DigitVal(ds[i]) < DigitVal(lim[i])

\* strconv.Atoi: an optional sign, then one or more decimal digits; a value
\* that does not fit int is an error (ErrRange)
Atoi_noError(s) ==
    IF s # <<>> /\ \A i \in 1..Len(s) : IsDigit(s[i])
    THEN [ok |-> TRUE, val |-> DecVal(s)]
    ELSE [ok |-> TRUE, val |-> 0]
Atoi(s) ==
    LET signed == s # <<>> /\ s[1] \in {"+", "-"}
        neg == signed /\ s[1] = "-"
        digits == IF signed THEN Tail(s) ELSE s
    IN  IF digits = <<>> \/ \E i \in 1..Len(digits) : ~IsDigit(digits[i])
        THEN [ok |-> FALSE, val |-> 0]
        ELSE LET sig == StripZeros(digits)
             IN  IF ~FitsDigits(sig, IF neg THEN MinIntDigits ELSE MaxIntDigits)
                 THEN [ok |-> FALSE, val |-> 0]
                 ELSE [ok |-> TRUE,
                       val |-> IF ~neg THEN DecVal(sig)
                               ELSE IF sig = MinIntDigits
                               THEN (0 - DecVal(MaxIntDigits)) - 1
                               ELSE 0 - DecVal(sig)]

\* copy(dst, src) with len(dst) = n: the number of bytes copied
Min(a, b) == IF a < b THEN a ELSE b

----------------------------------------------------------------------------
(* The error catalog *)

\* errStrings: the device's error codes and their descriptions
errStrings ==
    (0 :> "success")
    @@ (1 :> "The command is not supported (the combo framework contains the command but the current platform has not transplanted or adapted to support it)")
    @@ (2 :> "The command parameters contain unsupported operations (the current platform only supports some operations for this command)")
    @@ (3 :> "The instruction format is incorrect (this refers to the wrong number of parameters, for example, two parameters are required, but only one parameter is entered)")
    @@ (4 :> "Parameter error (the content of the parameter is wrong, for example, a number between 0 and 9 is required, but 10 or xyz is passed in, which is a parameter error)")
    @@ (5 :> "Parameter length error (command length exceeds the maximum supported length)")
    @@ (31 :> "The current command has not ended and needs to report the status asynchronously. This value is used by the state machine to determine the use of the command and no message is returned.")
    @@ (32 :> "Unknown error (or unhandled error type)")
    @@ (33 :> "malloc error")
    @@ (34 :> "Failed to read buf")
    @@ (35 :> "Failed to write buf")
    @@ (36 :> "Configuration error (configuration error loaded from memory, for example, we set port -1 for OTA upgrade, and check port error when executing AT+OTA, then configuration error will be reported)")
    @@ (37 :> "Failed to create task")
    @@ (38 :> "Flash read and write failure")
    @@ (39 :> "Serial port configuration error, unsupported baud rate")
    @@ (40 :> "Serial port configuration error, unsupported data bits")
    @@ (41 :> "Serial port configuration error, unsupported stop bit")
    @@ (42 :> "Serial port configuration error, unsupported parity bit")
    @@ (43 :> "Serial port configuration error, unsupported flow control")
    @@ (44 :> "Serial port configuration failed")
    @@ (45 :> "Wrong username/password")
    @@ (46 :> "Low power mode error or unsupported low power mode")
    @@ (47 :> "Uninitialized configuration data error (including io mapping data)")
    @@ (63 :> "General error code (without other information)")
    @@ (64 :> "Wi-Fi not initialized or initialization failed")
    @@ (65 :> "Wi-Fi mode error (unable to connect to Wi-Fi in single AP mode)")
    @@ (66 :> "Wi-Fi connection failed")
    @@ (67 :> "Wi-Fi connection successful, error in obtaining IP (DHCP)")
    @@ (68 :> "Failed to obtain encryption method")
    @@ (69 :> "The specified AP was not found.")
    @@ (70 :> "Wi-Fi scan start failed")
    @@ (71 :> "Wi-Fi scan timeout")
    @@ (72 :> "Failed to enable AP hotspot")
    @@ (73 :> "Failed to obtain the Wi-Fi information of the router or the AP information that you enabled yourself")
    @@ (74 :> "The network card (STA/AP) is not running")
    @@ (75 :> "Wi-Fi country code error (unsupported Wi-Fi country code)")
    @@ (76 :> "The current network configuration mode is wrong.")
    @@ (95 :> "Wi-Fi connection unknown error")
    @@ (96 :> "Failed to create socket")
    @@ (97 :> "Socket connection failed")
    @@ (98 :> "DNS Failure")
    @@ (99 :> "The socket status is wrong (for example, TCP is not connected yet)")
    @@ (100 :> "Socket type error")
    @@ (101 :> "Socket send failed")
    @@ (102 :> "Socket receive failed")
    @@ (103 :> "Socket monitoring thread creation failed")
    @@ (104 :> "Socket bind error")
    @@ (105 :> "The current connection cannot be transparently linked (wrong socket type or number)")
    @@ (106 :> "PING test failed (all packets lost)")
    @@ (107 :> "Wi-Fi country code error (unsupported Wi-Fi country code)")
    @@ (108 :> "SSL Config Error")
    @@ (109 :> "SSL verification error (usually caused by unsupported SSL encryption type or certificate error)")
    @@ (127 :> "Unknown socket error")

ErrCantParse == "Can't parse ERROR response"

\* errStrings[errCode]: a code the map does not hold gives the empty string
ErrString(code) == IF code \in DOMAIN errStrings THEN errStrings[code] ELSE ""

\* getErrStr(errLine): the catalog entry of the number after the first ':'
getErrStr_emptyDefault(errLine) ==
    LET tokens == Split(errLine, ":")
    IN  IF Len(tokens) > 1 /\ Atoi(tokens[2]).ok
        THEN ErrString(Atoi(tokens[2]).val)
        ELSE ""
getErrStr(errLine) ==
    LET tokens == Split(errLine, ":")
    IN  IF Len(tokens) > 1
        THEN LET errCode == Atoi(tokens[2])
             IN  IF errCode.ok THEN ErrString(errCode.val) ELSE ErrCantParse
        ELSE ErrCantParse

----------------------------------------------------------------------------
(* Sockets *)

TCP == "IPPROTO_TCP"
UDP == "IPPROTO_UDP"
TLS == "IPPROTO_TLS"

\* a socket whose queue is already closed
NewSocket_closed(protocol) ==
    [protocol |-> protocol, id |-> <<>>, rx |-> <<>>, closed |-> TRUE,
     remainder |-> <<>>, laddr |-> NONE]

\* &socket{protocol: protocol, rx: make(chan []byte, 10)}
NewSocket(protocol) ==
    [protocol |-> protocol, id |-> <<>>, rx |-> <<>>, closed |-> FALSE,
     remainder |-> <<>>, laddr |-> NONE]

RECURSIVE findSocketFrom(_, _, _)
findSocketFrom(socks, id, i) ==
    IF i >= NSockets THEN [k |-> "notfound"]
    ELSE IF socks[i] = NULL THEN [k |-> "panic"]       \* s.id with s == nil
    ELSE IF socks[i].id = id THEN [k |-> "found", fd |-> i]
    ELSE findSocketFrom(socks, id, i + 1)

findSocket(socks, id) == findSocketFrom(socks, id, 0)

getSocket(socks, sockfd) ==
    IF sockfd < 0 \/ sockfd + 1 > NSockets THEN [ok |-> FALSE]
    ELSE IF socks[sockfd] = NULL THEN [ok |-> FALSE]
    ELSE [ok |-> TRUE, s |-> socks[sockfd]]

----------------------------------------------------------------------------
(* The parser.  An effect is what processUART does besides the buffer and   *)
(* d.last: a send on d.txReady, d.ok, d.err or a socket's rx, a close of a  *)
(* socket's rx, or a panic.                                                 *)

EffNone == [k |-> "none"]
EffPanic == [k |-> "panic"]

\* an event answered like OK
handle_signalsOk(event, socks) == [k |-> "ok"]

handle(event, socks) ==
    IF HasPrefix(event, sSocketDisconnect)
    THEN LET f == findSocket(socks, split(event, 1, ",", "SocketDisconnect"))
         IN  CASE f.k = "found" -> [k |-> "close", fd |-> f.fd]
               [] f.k = "panic" -> EffPanic
               [] OTHER -> EffNone
    ELSE EffNone

\* length != len(parts[3]): return without resetting d.pos
OnLengthMismatch_reset(b, l) == [buf |-> <<>>, last |-> l, eff |-> EffNone]
OnLengthMismatch(b, l) == [buf |-> b, last |-> l, eff |-> EffNone]

\* the default case: a line that is not empty replaces d.last (size > 0)
StoreLine(l, line) == IF Len(line) > 0 THEN line ELSE l

\* b is d.buf[:d.pos] with the byte just read appended
\* d.pos == 1 && d.buf[0] == '>'
IsReady_anywhere(b) == b # <<>> /\ b[Len(b)] = ">"
IsReady(b) == Len(b) = 1 /\ b[1] = ">"

processUART(b, l, socks) ==
    IF IsReady(b)
    THEN [buf |-> <<>>, last |-> l, eff |-> [k |-> "txReady"]]
    ELSE IF ~HasSuffix(b, CRLF)
    THEN [buf |-> b, last |-> l, eff |-> EffNone]
    ELSE
    LET sofar == SubSeq(b, 1, Len(b) - 2)
    IN  IF HasPrefix(sofar, sEventSocketDown)
        THEN LET parts == SplitN(sofar, ",", 4)
             IN  IF Len(parts) # 4
                 THEN [buf |-> <<>>, last |-> l, eff |-> EffNone]
                 ELSE LET length == Atoi(parts[3])
                      IN  IF ~length.ok
                          THEN [buf |-> <<>>, last |-> l, eff |-> EffNone]
                          ELSE IF length.val # Len(parts[4])
                          THEN OnLengthMismatch(b, l)
                          ELSE LET f == findSocket(socks, parts[2])
                               IN  CASE f.k = "panic" ->
                                          [buf |-> b, last |-> l, eff |-> EffPanic]
                                     [] f.k = "notfound" ->
                                          [buf |-> <<>>, last |-> l, eff |-> EffNone]
                                     [] OTHER ->
                                          [buf |-> <<>>, last |-> l,
                                           eff |-> [k |-> "rx", fd |-> f.fd,
                                                    data |-> parts[4]]]
        ELSE IF HasPrefix(sofar, sOK)
        THEN [buf |-> <<>>, last |-> l, eff |-> [k |-> "ok"]]
        ELSE IF HasPrefix(sofar, sERROR)
        THEN [buf |-> <<>>, last |-> l, eff |-> [k |-> "err", msg |-> getErrStr(l)]]
        ELSE IF HasPrefix(sofar, sEVENT)
        THEN [buf |-> <<>>, last |-> l,
              eff |-> handle(SubSeq(sofar, Len(sEVENT) + 1, Len(sofar)), socks)]
        ELSE [buf |-> <<>>, last |-> StoreLine(l, sofar), eff |-> EffNone]

----------------------------------------------------------------------------
(* The background reader: serviceUART.  st is the part of the state the     *)
(* reader works on: [buf, last, rx (the UART's bytes), socks, status, pend, *)
(* enq].  status "run" is inside the inner loop holding d.uartMu; "break"   *)
(* left the loop at a full buffer; "txReady", "ok", "err" and "rx" are      *)
(* blocked in a channel send (still holding d.uartMu).                      *)

NoPend == [k |-> "none"]
PanicOf(why) == [k |-> "panic", why |-> why]

\* whether a send on s.rx, a channel of capacity RxCap, proceeds at once
HasRoom_unbounded(s) == TRUE
HasRoom(s) == Len(s.rx) < RxCap

\* s.rx <- data on a channel of capacity RxCap
Enqueue(socks, hist, fd, data) ==
    [socks |-> [socks EXCEPT ![fd].rx = Append(@, data)],
     enq |-> [hist EXCEPT ![fd] = Append(@, data)]]

\* close(s.rx) on an open channel: what is buffered stays receivable
CloseChan(s) == [s EXCEPT !.closed = TRUE]

\* the reader keeping the bytes of a unit it has processed
ApplyEff_keepsBuf(st, r) ==
    [st EXCEPT !.buf = Append(st.buf, Head(st.rx)), !.last = r.last,
               !.rx = Tail(st.rx)]

ApplyEff(st, r) ==
    LET base == [st EXCEPT !.buf = r.buf, !.last = r.last, !.rx = Tail(st.rx)]
        e == r.eff
    IN  CASE e.k = "none" -> base
          [] e.k = "panic" ->
                [base EXCEPT !.status = "panic", !.pend = PanicOf("nil pointer dereference")]
          [] e.k \in {"txReady", "ok", "err"} ->
                [base EXCEPT !.status = e.k, !.pend = e]
          [] e.k = "close" ->
                IF st.socks[e.fd].closed
                THEN [base EXCEPT !.status = "panic",
                                  !.pend = PanicOf("close of closed channel")]
                ELSE [base EXCEPT !.socks[e.fd] = CloseChan(@)]
          [] e.k = "rx" ->
                IF st.socks[e.fd].closed
                THEN [base EXCEPT !.status = "panic",
                                  !.pend = PanicOf("send on closed channel")]
                ELSE IF HasRoom(st.socks[e.fd])
                THEN LET q == Enqueue(st.socks, st.enq, e.fd, e.data)
                     IN  [base EXCEPT !.socks = q.socks, !.enq = q.enq]
                ELSE [base EXCEPT !.status = "rx", !.pend = e]

\* one iteration of serviceUART's inner loop (uart.Buffered() > 0)
ReadStep(st) ==
    IF Len(st.buf) >= BufCap
    THEN [st EXCEPT !.buf = <<>>, !.status = "break"]
    ELSE ApplyEff(st, processUART(Append(st.buf, Head(st.rx)), st.last, st.socks))

ReaderState ==
    [buf |-> buf, last |-> last, rx |-> uartRx, socks |-> sockets,
     status |-> reader, pend |-> pend, enq |-> enq]

Alive == reader # "panic"

concVars == <<dLock, readers, pc, op, outcome, owed, devLeft, answered>>

SetReader(st) ==
    /\ buf' = st.buf
    /\ last' = st.last
    /\ uartRx' = st.rx
    /\ sockets' = st.socks
    /\ pend' = st.pend
    /\ enq' = st.enq
    /\ reader' = IF st.status = "break" THEN "sleep" ELSE st.status
    /\ uartMu' = IF st.status \in {"break", "panic"} THEN NONE ELSE uartMu

\* the reader entering its inner loop without d.uartMu
ReaderLock_noLock ==
    /\ Alive
    /\ reader = "sleep"
    /\ uartRx # <<>>
    /\ reader' = "run"
    /\ UNCHANGED <<sockets, buf, last, uartRx, pend, uartMu, concVars, res, enq, got, fed>>

\* d.uartMu.Lock() at the top of serviceUART's outer loop
\* (a pass that finds nothing buffered unlocks again at once and is left out)
ReaderLock ==
    /\ Alive
    /\ reader = "sleep"
    /\ uartMu = NONE
    /\ uartRx # <<>>
    /\ reader' = "run"
    /\ uartMu' = "reader"
    /\ UNCHANGED <<sockets, buf, last, uartRx, pend, concVars, res, enq, got, fed>>

\* the inner loop's body for one byte
ReadByte ==
    /\ Alive
    /\ reader = "run"
    /\ uartRx # <<>>
    /\ SetReader(ReadStep(ReaderState))
    /\ fed' = IF Len(buf) >= BufCap THEN fed ELSE Append(fed, Head(uartRx))
    /\ UNCHANGED <<concVars, res, got>>

\* uart.Buffered() = 0: d.uartMu.Unlock(), time.Sleep
ReaderUnlock ==
    /\ Alive
    /\ reader = "run"
    /\ uartRx = <<>>
    /\ reader' = "sleep"
    /\ uartMu' = NONE
    /\ UNCHANGED <<sockets, buf, last, uartRx, pend, concVars, res, enq, got, fed>>

\* the reader is blocked in  s.rx <- data  on the queue of the socket in slot fd
SenderBlocked(fd) == reader = "rx" /\ pend.fd = fd

----------------------------------------------------------------------------
(* Recv *)

EOF == "io.EOF"
ErrInvalidSocketFd == "ErrInvalidSocketFd"
ErrNoMoreSockets == "ErrNoMoreSockets"

\* whether Recv's  data, ok := <-s.rx  can proceed
RecvReady_deadline(s) == TRUE
RecvReady(s) == Len(s.remainder) > 0 \/ s.rx # <<>> \/ s.closed

\* data, ok := <-s.rx  when it can proceed: what is buffered comes first, a
\* closed and drained channel gives ok = false
ChanRecv_closedFirst(s) ==
    IF s.closed THEN [ok |-> FALSE] ELSE [ok |-> TRUE, data |-> Head(s.rx)]
ChanRecv(s) ==
    IF s.rx # <<>> THEN [ok |-> TRUE, data |-> Head(s.rx)] ELSE [ok |-> FALSE]

\* if n < len(data) { s.remainder = data[n:] }
Leftover_dropped(rem, data, k) == rem
Leftover(rem, data, k) ==
    IF k < Len(data) THEN SubSeq(data, k + 1, Len(data)) ELSE rem

\* Recv after getSocket, with len(buf) = n: the socket afterwards, the bytes
\* copied into buf and the error
RecvBody(s, n) ==
    IF Len(s.remainder) > 0
    THEN LET k == Min(n, Len(s.remainder))
         IN  [s |-> [s EXCEPT !.remainder = SubSeq(@, k + 1, Len(@))],
              out |-> SubSeq(s.remainder, 1, k), err |-> "nil"]
    ELSE LET r == ChanRecv(s)
         IN  IF ~r.ok
             THEN [s |-> s, out |-> <<>>, err |-> EOF]
             ELSE LET k == Min(n, Len(r.data))
                  IN  [s |-> [s EXCEPT !.rx = Tail(@),
                                       !.remainder = Leftover(@, r.data, k)],
                       out |-> SubSeq(r.data, 1, k), err |-> "nil"]

----------------------------------------------------------------------------
(* The data path.  For SpecData the table and the bytes the device sends    *)
(* are drawn at the start; the reader parses them byte by byte and a caller *)
(* receives.                                                                *)

RecDown(id, length, data) ==
    sEventSocketDown \o <<",">> \o id \o <<",">> \o length \o <<",">> \o data \o CRLF
RecDisconnect(id) == sEVENT \o sSocketDisconnect \o <<",">> \o id \o CRLF

DataHello == <<"h","e","l","l","o">>
DataEmbedded == <<"a","b",CR,LF,"c","d","e","f">>
DataLeading == <<CR,LF,",","x">>

\* the well-formed length-framed records of the streams
DownRecords ==
    { [id |-> <<"3">>, length |-> <<"5">>, data |-> DataHello],
      [id |-> <<"3">>, length |-> <<"8">>, data |-> DataEmbedded],
      [id |-> <<"4">>, length |-> <<"4">>, data |-> DataLeading] }

Records ==
    { RecDown(r.id, r.length, r.data) : r \in DownRecords }
        \cup { RecDisconnect(<<"3">>) }

RECURSIVE Concat(_)
Concat(ss) == IF ss = <<>> THEN <<>> ELSE Head(ss) \o Concat(Tail(ss))

Streams ==
    { Concat(rs) : rs \in UNION { [1..n -> Records] : n \in 1..MaxRecords } }

DataIds == { <<>>, <<"3">>, <<"4">> }

Connected(id) == [NewSocket(TCP) EXCEPT !.id = id]

\* tables Socket/Connect/Close can leave: the slots up to MaxTableFd empty,
\* unconnected or connected, the connected ones with distinct ids
DataTables ==
    { t \in [Fds -> {NULL} \cup { Connected(id) : id \in DataIds }] :
        /\ \A fd \in Fds : fd > MaxTableFd => t[fd] = NULL
        /\ \A f1, f2 \in Fds :
              (f1 # f2 /\ t[f1] # NULL /\ t[f2] # NULL /\ t[f1].id # <<>>)
                  => t[f1].id # t[f2].id }

NoRes == [op |-> "none"]
Callers == {"c1", "c2"}

InitConc ==
    /\ dLock = NONE
    /\ readers = 1
    /\ pc = [c \in Callers |-> "idle"]
    /\ op = [c \in Callers |-> NoRes]
    /\ outcome = [c \in Callers |-> NONE]
    /\ owed = 0
    /\ devLeft = 0
    /\ answered = NONE

InitData ==
    /\ sockets \in DataTables
    /\ uartRx \in Streams
    /\ buf = <<>>
    /\ last = <<>>
    /\ reader = "sleep"
    /\ pend = NoPend
    /\ uartMu = NONE
    /\ InitConc
    /\ res = NoRes
    /\ enq = [fd \in Fds |-> <<>>]
    /\ got = [fd \in Fds |-> <<>>]
    /\ fed = <<>>

----------------------------------------------------------------------------
(* For SpecMalformed the device sends SocketDown lines that are not         *)
(* well-formed records: one to three fields, or a length that is no number  *)
(* or does not fit int.                                                     *)

BadRecords ==
    { sEventSocketDown \o CRLF,
      sEventSocketDown \o <<",","3">> \o CRLF,
      sEventSocketDown \o <<",","3",",","5">> \o CRLF,
      RecDown(<<"3">>, <<"x">>, DataHello),
      RecDown(<<"3">>, <<>>, DataHello),
      RecDown(<<"3">>, <<"9","9","9","9","9","9","9","9","9","9">>, DataHello) }

MalformedStreams ==
    { Concat(rs) : rs \in UNION { [1..n -> BadRecords \cup {RecDown(<<"3">>, <<"5">>, DataHello)}]
                                    : n \in 1..MaxRecords } }

InitMalformed ==
    /\ sockets \in DataTables
    /\ uartRx \in MalformedStreams
    /\ buf = <<>>
    /\ last = <<>>
    /\ reader = "sleep"
    /\ pend = NoPend
    /\ uartMu = NONE
    /\ InitConc
    /\ res = NoRes
    /\ enq = [fd \in Fds |-> <<>>]
    /\ got = [fd \in Fds |-> <<>>]
    /\ fed = <<>>

----------------------------------------------------------------------------
(* SpecErr: getErrStr applied to a line.  The line is held in d.last, as it *)
(* is when processUART calls getErrStr.                                     *)

ErrLineBytes == {":", "0", "1", "9", "-", "x"}
\* every short line, and two lines whose code is at the edge of int: the
\* largest int and the number after it
ErrLines ==
    UNION { [1..n -> ErrLineBytes] : n \in 0..MaxErrLen }
        \cup { sERROR \o <<":">> \o MaxIntDigits, sERROR \o <<":">> \o MinIntDigits }

InitErr ==
    /\ sockets = [fd \in Fds |-> NULL]
    /\ uartRx = <<>>
    /\ buf = <<>>
    /\ last \in ErrLines
    /\ reader = "sleep"
    /\ pend = NoPend
    /\ uartMu = NONE
    /\ InitConc
    /\ res = NoRes
    /\ enq = [fd \in Fds |-> <<>>]
    /\ got = [fd \in Fds |-> <<>>]
    /\ fed = <<>>

\* errStr := getErrStr(d.last)
Decode ==
    /\ res = NoRes
    /\ res' = [op |-> "getErrStr", err |-> getErrStr(last)]
    /\ UNCHANGED <<sockets, buf, last, uartRx, reader, pend, uartMu, concVars,
                   enq, got, fed>>

NextErr == Decode

SpecErr == InitErr /\ [][NextErr]_vars

----------------------------------------------------------------------------
(* The data path at a full queue.  For SpecQueue socket 0 (id "3") has one  *)
(* free place left in its queue, socket 1 (id "4") an empty queue; the      *)
(* reader parses a stream of chunks for both and of OK markers while a      *)
(* caller receives.                                                         *)

Chunk3 == <<"x">>
Chunk4 == <<"y">>
QueueUnits ==
    { RecDown(<<"3">>, <<"1">>, Chunk3), RecDown(<<"4">>, <<"1">>, Chunk4),
      sOK \o CRLF }
QueueStreams ==
    { Concat(us) : us \in UNION { [1..n -> QueueUnits] : n \in 1..MaxQueueUnits } }

\* RxCap - 1 chunks received by the reader and not yet by Recv
AlmostFull == [i \in 1..(RxCap - 1) |-> Chunk3]

InitQueue ==
    /\ sockets = [fd \in Fds |->
                    CASE fd = 0 -> [Connected(<<"3">>) EXCEPT !.rx = AlmostFull]
                      [] fd = 1 -> Connected(<<"4">>)
                      [] OTHER -> NULL]
    /\ uartRx \in QueueStreams
    /\ buf = <<>>
    /\ last = <<>>
    /\ reader = "sleep"
    /\ pend = NoPend
    /\ uartMu = NONE
    /\ InitConc
    /\ res = NoRes
    /\ enq = [fd \in Fds |-> IF fd = 0 THEN AlmostFull ELSE <<>>]
    /\ got = [fd \in Fds |-> <<>>]
    /\ fed = <<>>

----------------------------------------------------------------------------
(* The socket registry: Socket and Bind, which run from d.Lock() to the     *)
(* deferred d.Unlock() without waiting for anything, and the values of the  *)
(* calls.                                                                   *)

AF_INET == "AF_INET"
AF_INET6 == "AF_INET6"
SOCK_STREAM == "SOCK_STREAM"
SOCK_DGRAM == "SOCK_DGRAM"
ErrFamilyNotSupported == "ErrFamilyNotSupported"
ErrProtocolNotSupported == "ErrProtocolNotSupported"
ErrTimedOut == "Timed out"
ErrNotSupported == "ErrNotSupported"
ErrWrite == "uart write error"
ErrDevice == "ERROR"          \* the error made from the device's ERROR line
ErrParseAddr == "ParseAddr"   \* netip.ParseAddr's error

Outcomes == {"ok", "err", "timeout"}
\* the error execute returns; an outcome other than these is the message of the
\* error the reader sent on d.err
OutcomeErr(o) ==
    CASE o = "ok" -> "nil" [] o = "err" -> ErrDevice [] o = "timeout" -> ErrTimedOut
      [] OTHER -> o

LineConID1 == <<"C","o","n","I","D","=","1">>
LineConID2 == <<"C","o","n","I","D","=","2">>
LineDomain == <<"+","W","D","O","M","A","I","N",":","1",".","2",".","3",".","4">>
HostName == <<"h","o","s","t">>
ValidAddrs == { <<"1",".","2",".","3",".","4">> }
\* netip.ParseAddr succeeds on a dotted address
ParseAddrOk(a) == a \in ValidAddrs

\* the switch on domain and on (protocol, stype) at the head of Socket
SocketArgsErr_protocolFirst(domain, stype, protocol) ==
    IF ~ \/ (protocol = TCP /\ stype = SOCK_STREAM)
         \/ (protocol = TLS /\ stype = SOCK_STREAM)
         \/ (protocol = UDP /\ stype = SOCK_DGRAM)
    THEN ErrProtocolNotSupported
    ELSE IF domain # AF_INET THEN ErrFamilyNotSupported
    ELSE "nil"
SocketArgsErr(domain, stype, protocol) ==
    IF domain # AF_INET THEN ErrFamilyNotSupported
    ELSE IF \/ (protocol = TCP /\ stype = SOCK_STREAM)
            \/ (protocol = TLS /\ stype = SOCK_STREAM)
            \/ (protocol = UDP /\ stype = SOCK_DGRAM)
    THEN "nil"
    ELSE ErrProtocolNotSupported

\* the scan for an empty slot: the first fd with d.sockets[fd] == nil, or -1
FreeSlot_skipLast(socks) ==
    IF \E fd \in 0..(NSockets - 2) : socks[fd] = NULL
    THEN CHOOSE fd \in 0..(NSockets - 2) :
             socks[fd] = NULL /\ \A g \in 0..(fd - 1) : socks[g] # NULL
    ELSE -1
FreeSlot_highest(socks) ==
    IF \E fd \in Fds : socks[fd] = NULL
    THEN CHOOSE fd \in Fds : socks[fd] = NULL /\ \A g \in (fd + 1)..(NSockets - 1) : socks[g] # NULL
    ELSE -1
FreeSlot(socks) ==
    IF \E fd \in Fds : socks[fd] = NULL
    THEN CHOOSE fd \in Fds : socks[fd] = NULL /\ \A g \in 0..(fd - 1) : socks[g] # NULL
    ELSE -1

seqVars == <<buf, uartRx, reader, pend, uartMu, concVars, fed>>

\* d.Lock() succeeds
LockFree == dLock = NONE

\* Socket(domain, stype, protocol), called by c.  The arguments are looked at
\* before d.Lock(): a call that is refused for them returns whoever holds the
\* device mutex.
Socket(c, domain, stype, protocol) ==
    /\ Alive
    /\ pc[c] = "idle"
    /\ LET e == SocketArgsErr(domain, stype, protocol)
           fd == FreeSlot(sockets)
       IN  IF e # "nil"
           THEN /\ res' = [op |-> "Socket", fd |-> -1, err |-> e, cmds |-> 0]
                /\ UNCHANGED <<sockets, enq, got>>
           ELSE /\ LockFree
                /\ IF fd = -1
                   THEN /\ res' = [op |-> "Socket", fd |-> -1,
                                   err |-> ErrNoMoreSockets, cmds |-> 0]
                        /\ UNCHANGED <<sockets, enq, got>>
                   ELSE /\ sockets' = [sockets EXCEPT ![fd] = NewSocket(protocol)]
                        /\ enq' = [enq EXCEPT ![fd] = <<>>]
                        /\ got' = [got EXCEPT ![fd] = <<>>]
                        /\ res' = [op |-> "Socket", fd |-> fd, err |-> "nil",
                                   cmds |-> 0]
    /\ UNCHANGED <<last, seqVars>>

\* the mode of a TCP socket, whatever the protocol
ConnectMode_tcp(protocol) == "4"

\* the mode of the AT+SOCKET command for a protocol
ConnectMode(protocol) ==
    CASE protocol = UDP -> "2" [] protocol = TCP -> "4" [] protocol = TLS -> "7"
      [] OTHER -> ""

\* s.id = split(d.last, 1, "=", "connection ID") after a successful execute
ConnectedId(s, l) == split(l, 1, "=", "connection ID")

\* Bind that assigns the address whatever getSocket returned
Bind_ignoresError(c, fd, ip) ==
    /\ Alive
    /\ pc[c] = "idle"
    /\ LockFree
    /\ LET g == getSocket(sockets, fd)
       IN  /\ sockets' = IF g.ok THEN [sockets EXCEPT ![fd].laddr = ip] ELSE sockets
           /\ res' = [op |-> "Bind", fd |-> fd, err |-> "nil", cmds |-> 0]
    /\ UNCHANGED <<last, seqVars, enq, got>>

\* Bind(sockfd, ip), called by c
Bind(c, fd, ip) ==
    /\ Alive
    /\ pc[c] = "idle"
    /\ LockFree
    /\ LET g == getSocket(sockets, fd)
       IN  IF ~g.ok
           THEN /\ res' = [op |-> "Bind", fd |-> fd, err |-> ErrInvalidSocketFd,
                           cmds |-> 0]
                /\ UNCHANGED sockets
           ELSE /\ sockets' = [sockets EXCEPT ![fd].laddr = ip]
                /\ res' = [op |-> "Bind", fd |-> fd, err |-> "nil", cmds |-> 0]
    /\ UNCHANGED <<last, seqVars, enq, got>>

BindAddrs == {"192.168.0.2:80"}

SocketArgs ==
    { <<AF_INET, SOCK_STREAM, TCP>>, <<AF_INET, SOCK_DGRAM, UDP>>,
      <<AF_INET, SOCK_STREAM, TLS>>,
      <<AF_INET, SOCK_DGRAM, TCP>>, <<AF_INET, SOCK_STREAM, UDP>>,
      <<AF_INET6, SOCK_STREAM, TCP>>, <<AF_INET6, SOCK_DGRAM, TCP>> }

\* The model varies the sockets of the descriptors up to MaxConnFd: they take
\* every protocol and are connected; the sockets above are TCP and stay
\* unconnected.
VariedFds == 0..MaxConnFd
SocketArgsNow ==
    { a \in SocketArgs :
        a[3] = TCP \/ SocketArgsErr(a[1], a[2], a[3]) # "nil"
                  \/ FreeSlot(sockets) \in VariedFds }

\* what a program passes for sockfd: the occupied slots, the varied ones, and
\* one value on either side of the table
FdArgs == {-1, NSockets} \cup VariedFds \cup { fd \in Fds : sockets[fd] # NULL }

\* descriptors getSocket refuses: one on either side of the table, and the
\* first empty slot
BadFdArgs == { fd \in {-1, NSockets, FreeSlot(sockets)} : ~getSocket(sockets, fd).ok }
\* the descriptors the model passes to Bind and Recv
SomeFdArgs == VariedFds \cup BadFdArgs

InitTable ==
    /\ sockets = [fd \in Fds |-> NULL]
    /\ uartRx = <<>>
    /\ buf = <<>>
    /\ last = <<>>
    /\ reader = "sleep"
    /\ pend = NoPend
    /\ uartMu = NONE
    /\ InitConc
    /\ res = NoRes
    /\ enq = [fd \in Fds |-> <<>>]
    /\ got = [fd \in Fds |-> <<>>]
    /\ fed = <<>>

----------------------------------------------------------------------------
(* Spec: the driver with concurrent callers.  Each caller runs the public   *)
(* operations; pc is "idle" (between operations, or waiting for the device  *)
(* mutex), "write" (in execute/send/Send before uartMu.Lock and the write), *)
(* "wait" (in the select after a write), "cont" (the select has returned)   *)
(* or "recv" (in Recv at  <-s.rx).  The reader takes the bytes of one unit  *)
(* in a burst: only it touches the parse buffer, and it holds d.uartMu      *)
(* throughout.                                                              *)

ErrMissingSSID == "ErrMissingSSID"

RECURSIVE Burst(_)
Burst(st) == IF st.status # "run" \/ st.rx = <<>> THEN st ELSE Burst(ReadStep(st))

\* the inner loop of serviceUART over what is buffered
ReadBurst ==
    /\ Alive
    /\ reader = "run"
    /\ uartRx # <<>>
    /\ SetReader(Burst(ReaderState))
    /\ UNCHANGED <<concVars, res, got, fed>>

\* NetConnect has run up to  go d.serviceUART(): d.uart is set and configured
Started == readers > 0

\* the deferred d.Unlock() runs when the operation returns: the lock is held
\* across the write and the wait
HeldAfterWrite_released(c) == NONE
HeldAfterWrite(c) == c

\* the commands of NetConnect, in order; the join command is retried on failure
NetConnectCmds ==
    << <<"AT">>, <<"ATE0">>, <<"AT+GMR">>, <<"AT+CIPSTAMAC_DEF?">>,
       <<"AT+WCOUNTRY=4">>, <<"AT+WCOUNTRY?">>, <<"AT+WMODE=1,1">>,
       <<"AT+WJAP=", "ssid", ",", "pass">>, <<"AT+WAUTOCONN=1">>,
       <<"AT+WJAP?">>, <<"AT+SOCKETRECVCFG=1">> >>
JoinStep == 8

ConnectCmd(s) == <<"AT+SOCKET=", ConnectMode(s.protocol), ",", "addr", ",", "port">>
LookupCmd(name) == <<"AT+WDOMAIN=", name>>
DeleteCmd(s) == <<"AT+SOCKETDEL=", s.id>>
SendCmd(s, n) == <<"AT+SOCKETSEND=", s.id, ",", n>>

\* the channels the select of this wait receives from, besides the timer
Awaits_any(o) == {"ok", "txReady", "err"}
Awaits(o) == IF o.name = "send" \/ (o.name = "Send" /\ o.stage = "stage")
             THEN {"txReady", "err"}
             ELSE {"ok", "err"}

\* What a call returns.  An operation on a descriptor returns its error, Send
\* and Recv a byte count as well; the record also names the descriptor passed
\* and counts the writes to the UART the call made (cmds).
FdResult(name, fd, n, err, cmds) ==
    IF name \in {"Send", "Recv"}
    THEN [op |-> name, fd |-> fd, n |-> n, err |-> err, cmds |-> cmds]
    ELSE [op |-> name, fd |-> fd, err |-> err, cmds |-> cmds]

Result(o, name, err, n) ==
    IF "fd" \in DOMAIN o THEN FdResult(name, o.fd, n, err, o.cmds)
    ELSE [op |-> name, err |-> err]

\* the operation of caller c returns (n, err)
ReturnN(c, name, err, n) ==
    /\ res' = Result(op[c], name, err, n)
    /\ pc' = [pc EXCEPT ![c] = "idle"]
    /\ op' = [op EXCEPT ![c] = NoRes]
    /\ dLock' = IF dLock = c THEN NONE ELSE dLock    \* the deferred d.Unlock()

Return(c, name, err) == ReturnN(c, name, err, 0)

\* an operation that returns without having issued a command
ReturnAtOnce(c, name, err) ==
    /\ res' = [op |-> name, err |-> err]
    /\ UNCHANGED <<pc, op, dLock>>

\* an operation on a descriptor that returns (n, err) without having issued a
\* command
ReturnFd(c, name, fd, n, err) ==
    /\ res' = FdResult(name, fd, n, err, 0)
    /\ UNCHANGED <<pc, op, dLock>>

\* the operation goes on to write cmd
Issue(c, o) ==
    /\ op' = [op EXCEPT ![c] = o]
    /\ pc' = [pc EXCEPT ![c] = "write"]
    /\ dLock' = c
    /\ res' = NoRes

noReader == <<sockets, buf, last, uartRx, reader, pend, uartMu, enq, got, fed>>

\* NetConnect up to its first command
\* Every call starts a reader.  The readers share d.buf, d.pos and d.uartMu
\* and each holds d.uartMu for the whole of its inner loop, so at any moment
\* at most one of them is past d.uartMu.Lock(): reader, buf and pend describe
\* that one, and readers counts the goroutines started.
NetConnectUpTo(c, ssid, max) ==
    /\ Alive
    /\ pc[c] = "idle"
    /\ LockFree
    /\ readers < max
    /\ readers' = readers + 1                  \* go d.serviceUART()
    /\ reader' = IF reader = "off" THEN "sleep" ELSE reader
    /\ IF ssid = ""
       THEN ReturnAtOnce(c, "NetConnect", ErrMissingSSID)
       ELSE Issue(c, [name |-> "NetConnect", step |-> 1, cmd |-> NetConnectCmds[1]])
    /\ UNCHANGED <<sockets, buf, last, uartRx, pend, uartMu, enq, got, fed,
                   outcome, owed, devLeft, answered>>

BeginNetConnect(c, ssid) == NetConnectUpTo(c, ssid, MaxNetConnects)

BeginNetDisconnect(c) ==
    /\ Alive
    /\ pc[c] = "idle"
    /\ LockFree
    /\ Issue(c, [name |-> "NetDisconnect", cmd |-> <<"AT+WDISCONNECT">>])
    /\ UNCHANGED <<noReader, readers, outcome, owed, devLeft, answered>>

BeginGetHostByName(c, name) ==
    /\ Alive
    /\ pc[c] = "idle"
    /\ IF ParseAddrOk(name)
       THEN ReturnAtOnce(c, "GetHostByName", "nil")
       ELSE /\ LockFree
            /\ Issue(c, [name |-> "GetHostByName", cmd |-> LookupCmd(name)])
    /\ UNCHANGED <<noReader, readers, outcome, owed, devLeft, answered>>

BeginConnect(c, fd, host) ==
    /\ Alive
    /\ pc[c] = "idle"
    /\ LockFree
    /\ LET g == getSocket(sockets, fd)
       IN  IF ~g.ok
           THEN ReturnFd(c, "Connect", fd, 0, ErrInvalidSocketFd)
           ELSE IF host # <<>>
           THEN Issue(c, [name |-> "Connect", fd |-> fd, stage |-> "lookup",
                          cmd |-> LookupCmd(host), cmds |-> 0])
           ELSE IF ConnectMode(g.s.protocol) = ""
           THEN ReturnFd(c, "Connect", fd, 0, ErrProtocolNotSupported)
           ELSE Issue(c, [name |-> "Connect", fd |-> fd, stage |-> "connect",
                          cmd |-> ConnectCmd(g.s), cmds |-> 0])
    /\ UNCHANGED <<noReader, readers, outcome, owed, devLeft, answered>>

\* d.sockets[sockfd] = nil; a reader blocked sending to the socket's queue
\* keeps its reference to the socket, which nobody receives from any more
FreeSocket(fd) ==
    /\ sockets' = [sockets EXCEPT ![fd] = NULL]
    /\ pend' = IF reader = "rx" /\ pend.fd = fd THEN [pend EXCEPT !.fd = -1] ELSE pend

\* Close issuing the delete command whether or not the socket has an id
DeletesFirst_always(s) == TRUE
\* if s.id != "": Close deletes the connection on the device first
DeletesFirst(s) == s.id # <<>>

BeginClose(c, fd) ==
    /\ Alive
    /\ pc[c] = "idle"
    /\ LockFree
    /\ LET g == getSocket(sockets, fd)
       IN  IF ~g.ok
           THEN /\ ReturnFd(c, "Close", fd, 0, ErrInvalidSocketFd)
                /\ UNCHANGED <<sockets, pend>>
           ELSE IF DeletesFirst(g.s)
           THEN /\ Issue(c, [name |-> "Close", fd |-> fd, cmd |-> DeleteCmd(g.s),
                             cmds |-> 0])
                /\ UNCHANGED <<sockets, pend>>
           ELSE /\ FreeSocket(fd)
                /\ ReturnFd(c, "Close", fd, 0, "nil")
    /\ UNCHANGED <<buf, last, uartRx, reader, uartMu, enq, got, fed,
                   readers, outcome, owed, devLeft, answered>>

BeginSend(c, fd, n) ==
    /\ Alive
    /\ pc[c] = "idle"
    /\ LockFree
    /\ LET g == getSocket(sockets, fd)
       IN  IF ~g.ok
           THEN ReturnFd(c, "Send", fd, 0, ErrInvalidSocketFd)
           ELSE Issue(c, [name |-> "Send", fd |-> fd, n |-> n, stage |-> "stage",
                          cmd |-> SendCmd(g.s, n), cmds |-> 0])
    /\ UNCHANGED <<noReader, readers, outcome, owed, devLeft, answered>>

\* Listen(sockfd, backlog): the body is commented out; what is left takes no
\* mutex and returns netdev.ErrNotSupported
Listen_checksFd(c, fd, backlog) ==
    /\ Alive
    /\ pc[c] = "idle"
    /\ res' = [op |-> "Listen",
               err |-> IF getSocket(sockets, fd).ok THEN ErrNotSupported
                       ELSE ErrInvalidSocketFd]
    /\ UNCHANGED <<noReader, concVars>>
Listen(c, fd, backlog) ==
    /\ Alive
    /\ pc[c] = "idle"
    /\ res' = [op |-> "Listen", err |-> ErrNotSupported]
    /\ UNCHANGED <<noReader, concVars>>

\* Accept(sockfd) returns 0, netip.AddrPort{}, netdev.ErrNotSupported
Accept(c, fd) ==
    /\ Alive
    /\ pc[c] = "idle"
    /\ res' = [op |-> "Accept", fd |-> 0, err |-> ErrNotSupported]
    /\ UNCHANGED <<noReader, concVars>>

\* d.uartMu.Lock(); d.uart.Write(...); d.uartMu.Unlock() in execute, send and Send
\* d.uartMu after the write: d.uartMu.Unlock() comes before the error check
WriteUnlock_skipOnError(c, werr) == IF werr THEN c ELSE NONE
WriteUnlock(c, werr) == NONE

\* what the operation makes of the write error execute, send or Send returns:
\* NetDisconnect drops it, the join loop of NetConnect tries the command again,
\* every other caller returns it
WriteFailed(c) ==
    CASE op[c].name = "NetDisconnect" -> Return(c, op[c].name, "nil")
      [] op[c].name = "NetConnect" /\ op[c].step = JoinStep ->
            UNCHANGED <<pc, op, dLock, res>>
      [] OTHER -> Return(c, op[c].name, ErrWrite)

\* the operation's record after a write that succeeded
Written(o) == IF "cmds" \in DOMAIN o THEN [o EXCEPT !.cmds = @ + 1] ELSE o

\* d.uartMu.Lock(); d.uart.Write(...); d.uartMu.Unlock(); the error check and
\* the ticker.  d.uart is nil until NetConnect has set it: a write before that
\* dereferences nil and the program ends.
Write(c, werr) ==
    /\ Alive
    /\ pc[c] = "write"
    /\ uartMu = NONE
    /\ IF ~Started
       THEN /\ reader' = "panic"
            /\ pend' = PanicOf("nil uart")
            /\ uartMu' = c
            /\ UNCHANGED <<pc, op, dLock, res, owed, answered>>
       ELSE /\ uartMu' = WriteUnlock(c, werr)
            /\ IF werr
               THEN /\ WriteFailed(c)
                    /\ UNCHANGED <<owed, answered>>
               ELSE /\ owed' = Min(owed + 1, MaxOwed)
                    /\ answered' = NONE
                    /\ pc' = [pc EXCEPT ![c] = "wait"]
                    /\ dLock' = IF dLock = c THEN HeldAfterWrite(c) ELSE dLock
                    /\ op' = [op EXCEPT ![c] = Written(@)]
                    /\ UNCHANGED res
            /\ UNCHANGED <<reader, pend>>
    /\ UNCHANGED <<sockets, buf, last, uartRx, enq, got, fed, readers, outcome, devLeft>>

\* what the select's cases make of the value received on channel ch
Received(ch, p) == IF ch = "err" THEN p.msg ELSE "ok"

\* the select receives from d.ok, d.txReady or d.err: the reader's send completes
Signal(c) ==
    /\ Alive
    /\ pc[c] = "wait"
    /\ reader \in Awaits(op[c])
    /\ outcome' = [outcome EXCEPT ![c] = Received(reader, pend)]
    /\ pc' = [pc EXCEPT ![c] = "cont"]
    /\ reader' = "run"
    /\ pend' = NoPend
    /\ UNCHANGED <<sockets, buf, last, uartRx, uartMu, enq, got, fed, dLock,
                   readers, op, owed, devLeft, res, answered>>

\* the select receives from the ticker
Timeout(c) ==
    /\ Alive
    /\ pc[c] = "wait"
    /\ outcome' = [outcome EXCEPT ![c] = "timeout"]
    /\ pc' = [pc EXCEPT ![c] = "cont"]
    /\ UNCHANGED <<noReader, dLock, readers, op, owed, devLeft, res, answered>>

\* Connect with s.id assigned from d.last before the error of execute is looked at
AssignsId_beforeCheck(out) == TRUE
\* Connect comes to  s.id = split(d.last, ...)  only when execute returned nil
AssignsId(out) == out = "ok"

\* Send that writes the payload without regard to the outcome of the command's
\* wait
WritesPayload_anyway(out) == TRUE
\* Send comes to the write of the payload only when d.send returned nil
WritesPayload(out) == out = "ok"

\* what the operation does after its wait has returned
Continue(c) ==
    /\ Alive
    /\ pc[c] = "cont"
    /\ LET o == op[c]
           out == outcome[c]
           e == OutcomeErr(out)
       IN  CASE o.name = "NetDisconnect" ->
                  /\ Return(c, o.name, "nil")
                  /\ UNCHANGED <<sockets, pend>>
             [] o.name = "GetHostByName" ->
                  /\ Return(c, o.name,
                            IF out # "ok" THEN e
                            ELSE IF ParseAddrOk(split(last, 1, ":", "host by name"))
                            THEN "nil" ELSE ErrParseAddr)
                  /\ UNCHANGED <<sockets, pend>>
             [] o.name = "NetConnect" ->
                  IF out = "ok" /\ o.step = Len(NetConnectCmds)
                  THEN /\ Return(c, o.name, "nil")
                       /\ UNCHANGED <<sockets, pend>>
                  ELSE IF out = "ok"
                  THEN /\ Issue(c, [o EXCEPT !.step = @ + 1,
                                             !.cmd = NetConnectCmds[o.step + 1]])
                       /\ UNCHANGED <<sockets, pend>>
                  ELSE IF o.step = JoinStep
                  THEN /\ Issue(c, o)
                       /\ UNCHANGED <<sockets, pend>>
                  ELSE /\ Return(c, o.name, e)
                       /\ UNCHANGED <<sockets, pend>>
             [] o.name = "Connect" /\ o.stage = "lookup" ->
                  IF out # "ok"
                  THEN /\ Return(c, o.name, e)
                       /\ UNCHANGED <<sockets, pend>>
                  ELSE IF ~ParseAddrOk(split(last, 1, ":", "host by name"))
                  THEN /\ Return(c, o.name, ErrParseAddr)
                       /\ UNCHANGED <<sockets, pend>>
                  ELSE IF ConnectMode(sockets[o.fd].protocol) = ""
                  THEN /\ Return(c, o.name, ErrProtocolNotSupported)
                       /\ UNCHANGED <<sockets, pend>>
                  ELSE /\ Issue(c, [o EXCEPT !.stage = "connect",
                                             !.cmd = ConnectCmd(sockets[o.fd])])
                       /\ UNCHANGED <<sockets, pend>>
             [] o.name = "Connect" /\ o.stage = "connect" ->
                  /\ Return(c, o.name, e)
                  /\ sockets' = IF AssignsId(out)
                                THEN [sockets EXCEPT
                                        ![o.fd].id = ConnectedId(sockets[o.fd], last)]
                                ELSE sockets
                  /\ UNCHANGED pend
             [] o.name = "Close" ->
                  /\ Return(c, o.name, e)
                  /\ IF out = "ok" THEN FreeSocket(o.fd) ELSE UNCHANGED <<sockets, pend>>
             [] o.name = "Send" /\ o.stage = "stage" ->
                  IF WritesPayload(out)
                  THEN /\ Issue(c, [o EXCEPT !.stage = "payload",
                                             !.cmd = <<"payload", o.n>>])
                       /\ UNCHANGED <<sockets, pend>>
                  ELSE /\ Return(c, o.name, e)
                       /\ UNCHANGED <<sockets, pend>>
             [] o.name = "Send" /\ o.stage = "payload" ->
                  /\ ReturnN(c, o.name, e, IF out = "ok" THEN o.n ELSE 0)
                  /\ UNCHANGED <<sockets, pend>>
             [] o.name \in {"execute", "send"} ->
                  /\ Return(c, o.name, e)
                  /\ UNCHANGED <<sockets, pend>>
    /\ outcome' = [outcome EXCEPT ![c] = NONE]
    /\ UNCHANGED <<buf, last, uartRx, reader, uartMu, enq, got, fed, readers,
                   owed, devLeft, answered>>

\* the device: it answers a command it owes an answer to with plain lines and a
\* terminal marker, and sends events on its own
UnitOK == sOK \o CRLF
UnitERROR == sERROR \o <<":","1","0","5">> \o CRLF
UnitReady == <<">">>
Terminals == {UnitOK, UnitERROR, UnitReady}
DeviceLines == {LineConID1 \o CRLF, LineDomain \o CRLF}
DeviceEvents == {RecDown(<<"1">>, <<"1">>, <<"x">>), RecDisconnect(<<"1">>)}

devUnchanged == <<sockets, buf, last, reader, pend, uartMu, enq, got, fed, dLock,
                  readers, pc, op, outcome, res>>

DevLine(u) ==
    /\ Alive /\ Started
    /\ owed > 0
    /\ uartRx = <<>>
    /\ uartRx' = u
    /\ answered' = u
    /\ UNCHANGED <<devUnchanged, owed, devLeft>>

DevTerminal(u) ==
    /\ Alive /\ Started
    /\ owed > 0
    /\ uartRx = <<>>
    /\ uartRx' = u
    /\ owed' = owed - 1
    /\ UNCHANGED <<devUnchanged, devLeft, answered>>

DevEvent(u) ==
    /\ Alive /\ Started
    /\ devLeft > 0
    /\ uartRx = <<>>
    /\ uartRx' = u
    /\ devLeft' = devLeft - 1
    /\ UNCHANGED <<devUnchanged, owed, answered>>

Init ==
    /\ sockets = [fd \in Fds |-> NULL]
    /\ uartRx = <<>>
    /\ buf = <<>>
    /\ last = <<>>
    /\ reader = "off"
    /\ pend = NoPend
    /\ uartMu = NONE
    /\ dLock = NONE
    /\ readers = 0
    /\ pc = [c \in Callers |-> "idle"]
    /\ op = [c \in Callers |-> NoRes]
    /\ outcome = [c \in Callers |-> NONE]
    /\ owed = 0
    /\ devLeft = MaxEvents
    /\ answered = NONE
    /\ res = NoRes
    /\ enq = [fd \in Fds |-> <<>>]
    /\ got = [fd \in Fds |-> <<>>]
    /\ fed = <<>>

Next ==
    \/ ReaderLock
    \/ ReadBurst
    \/ ReaderUnlock
    \/ \E u \in DeviceLines : DevLine(u)
    \/ \E u \in Terminals : DevTerminal(u)
    \/ \E u \in DeviceEvents : DevEvent(u)
    \/ \E c \in Callers :
          \/ \E ssid \in {"", "ssid"} : BeginNetConnect(c, ssid)
          \/ BeginNetDisconnect(c)
          \/ \E name \in {HostName, <<"1",".","2",".","3",".","4">>} : BeginGetHostByName(c, name)
          \/ \E fd \in 0..MaxConcFd, host \in {<<>>, HostName} : BeginConnect(c, fd, host)
          \/ \E fd \in 0..MaxConcFd : BeginClose(c, fd)
          \/ \E fd \in 0..MaxConcFd : BeginSend(c, fd, 1)
          \/ FreeSlot(sockets) <= MaxConcFd /\ Socket(c, AF_INET, SOCK_STREAM, TCP)
          \/ Socket(c, AF_INET6, SOCK_STREAM, TCP)
          \/ \E fd \in {-1, 0, NSockets} : Listen(c, fd, 1)
          \/ \E fd \in {-1, 0, NSockets} : Accept(c, fd)
          \/ \E werr \in BOOLEAN : Write(c, werr)
          \/ Signal(c)
          \/ Timeout(c)
          \/ Continue(c)

Spec == Init /\ [][Next]_vars

----------------------------------------------------------------------------
(* SpecExec: execute and send called as they stand, by two goroutines of the *)
(* package, on a device whose reader runs.  Neither function touches the     *)
(* device mutex: the caller of execute is in "write" up to the write, then   *)
(* in "wait" at the select.                                                  *)

ExecCmds == {<<"AT">>, <<"AT+WJAP?">>}
StageCmds == {<<"AT+SOCKETSEND=", "1", ",", 1>>}

\* d.execute(cmd, timeout) up to its write
execute(c, cmd) ==
    /\ Alive
    /\ pc[c] = "idle"
    /\ op' = [op EXCEPT ![c] = [name |-> "execute", cmd |-> cmd]]
    /\ pc' = [pc EXCEPT ![c] = "write"]
    /\ res' = NoRes
    /\ UNCHANGED <<noReader, dLock, readers, outcome, owed, devLeft, answered>>

\* d.send(cmd, timeout) up to its write
send(c, cmd) ==
    /\ Alive
    /\ pc[c] = "idle"
    /\ op' = [op EXCEPT ![c] = [name |-> "send", cmd |-> cmd]]
    /\ pc' = [pc EXCEPT ![c] = "write"]
    /\ res' = NoRes
    /\ UNCHANGED <<noReader, dLock, readers, outcome, owed, devLeft, answered>>

\* the device after NewDevice and go d.serviceUART()
InitExec ==
    /\ sockets = [fd \in Fds |-> NULL]
    /\ uartRx = <<>>
    /\ buf = <<>>
    /\ last = <<>>
    /\ reader = "sleep"
    /\ pend = NoPend
    /\ uartMu = NONE
    /\ dLock = NONE
    /\ readers = 1
    /\ pc = [c \in Callers |-> "idle"]
    /\ op = [c \in Callers |-> NoRes]
    /\ outcome = [c \in Callers |-> NONE]
    /\ owed = 0
    /\ devLeft = 0
    /\ answered = NONE
    /\ res = NoRes
    /\ enq = [fd \in Fds |-> <<>>]
    /\ got = [fd \in Fds |-> <<>>]
    /\ fed = <<>>

NextExec ==
    \/ ReaderLock
    \/ ReadBurst
    \/ ReaderUnlock
    \/ \E u \in DeviceLines : DevLine(u)
    \/ \E u \in Terminals : DevTerminal(u)
    \/ \E c \in Callers :
          \/ \E cmd \in ExecCmds : execute(c, cmd)
          \/ \E cmd \in StageCmds : send(c, cmd)
          \/ \E werr \in BOOLEAN : Write(c, werr)
          \/ Signal(c)
          \/ Timeout(c)
          \/ Continue(c)

SpecExec == InitExec /\ [][NextExec]_vars

----------------------------------------------------------------------------
(* SpecRecv: Recv and Send with concurrent callers while chunks arrive.     *)
(* Socket 0 (id "3") has an empty queue, socket 1 (id "4") one free place   *)
(* in its queue; the device sends chunks for both and answers commands.     *)

\* Recv up to  data, ok := <-s.rx : a remainder is returned at once, otherwise
\* the caller goes on to the receive with the device mutex held
BeginRecv(c, fd, n) ==
    /\ Alive
    /\ pc[c] = "idle"
    /\ LockFree
    /\ LET g == getSocket(sockets, fd)
       IN  IF ~g.ok
           THEN /\ ReturnFd(c, "Recv", fd, 0, ErrInvalidSocketFd)
                /\ UNCHANGED <<sockets, got>>
           ELSE IF Len(g.s.remainder) > 0
           THEN LET r == RecvBody(g.s, n)
                IN  /\ sockets' = [sockets EXCEPT ![fd] = r.s]
                    /\ got' = [got EXCEPT ![fd] = @ \o r.out]
                    /\ ReturnFd(c, "Recv", fd, Len(r.out), r.err)
           ELSE /\ op' = [op EXCEPT ![c] = [name |-> "Recv", fd |-> fd, n |-> n,
                                            cmds |-> 0]]
                /\ pc' = [pc EXCEPT ![c] = "recv"]
                /\ dLock' = c
                /\ res' = NoRes
                /\ UNCHANGED <<sockets, got>>
    /\ UNCHANGED <<buf, last, uartRx, reader, pend, uartMu, readers, outcome,
                   owed, devLeft, enq, fed, answered>>

\* data, ok := <-s.rx  proceeds, and Recv returns.  A receive from a full
\* queue on which the reader is blocked in  s.rx <- data  completes that send
\* as well: the chunk the reader held is queued and the reader goes on.
RecvChunk(c) ==
    /\ Alive
    /\ pc[c] = "recv"
    /\ LET fd == op[c].fd
           s == sockets[fd]
       IN  /\ RecvReady(s)
           /\ LET r == RecvBody(s, op[c].n)
              IN  /\ got' = [got EXCEPT ![fd] = @ \o r.out]
                  /\ ReturnN(c, "Recv", r.err, Len(r.out))
                  /\ IF SenderBlocked(fd)
                     THEN LET q == Enqueue([sockets EXCEPT ![fd] = r.s], enq,
                                           fd, pend.data)
                          IN  /\ sockets' = q.socks
                              /\ enq' = q.enq
                              /\ reader' = "run"
                              /\ pend' = NoPend
                     ELSE /\ sockets' = [sockets EXCEPT ![fd] = r.s]
                          /\ UNCHANGED <<enq, reader, pend>>
    /\ UNCHANGED <<buf, last, uartRx, uartMu, readers, outcome,
                   owed, devLeft, fed, answered>>

ChunkA == <<"a","b">>
ChunkB == <<"y">>
RecvUnits == { RecDown(<<"3">>, <<"2">>, ChunkA), RecDown(<<"4">>, <<"1">>, ChunkB) }
QueuedB == [i \in 1..(RxCap - 1) |-> ChunkB]

InitRecv ==
    /\ sockets = [fd \in Fds |->
                    CASE fd = 0 -> Connected(<<"3">>)
                      [] fd = 1 -> [Connected(<<"4">>) EXCEPT !.rx = QueuedB]
                      [] OTHER -> NULL]
    /\ uartRx = <<>>
    /\ buf = <<>>
    /\ last = <<>>
    /\ reader = "sleep"
    /\ pend = NoPend
    /\ uartMu = NONE
    /\ dLock = NONE
    /\ readers = 1
    /\ pc = [c \in Callers |-> "idle"]
    /\ op = [c \in Callers |-> NoRes]
    /\ outcome = [c \in Callers |-> NONE]
    /\ owed = 0
    /\ devLeft = MaxRecvEvents
    /\ answered = NONE
    /\ res = NoRes
    /\ enq = [fd \in Fds |-> IF fd = 1 THEN QueuedB ELSE <<>>]
    /\ got = [fd \in Fds |-> <<>>]
    /\ fed = <<>>

NextRecv ==
    \/ ReaderLock
    \/ ReadBurst
    \/ ReaderUnlock
    \/ \E u \in RecvUnits : DevEvent(u)
    \/ \E u \in Terminals : DevTerminal(u)
    \/ \E c \in Callers :
          \/ \E fd \in 0..1 : BeginRecv(c, fd, 1)
          \/ RecvChunk(c)
          \/ BeginSend(c, 0, 1)
          \/ \E werr \in BOOLEAN : Write(c, werr)
          \/ Signal(c)
          \/ Timeout(c)
          \/ Continue(c)

SpecRecv == InitRecv /\ [][NextRecv]_vars

----------------------------------------------------------------------------
(* SpecData and SpecMalformed: the reader parses the bytes drawn at the     *)
(* start while caller c1 calls Recv; it stands at  <-s.rx  with the device  *)
(* mutex until the queue of its socket holds a chunk or is closed.          *)

NextData ==
    \/ ReaderLock
    \/ ReadByte
    \/ ReaderUnlock
    \/ \E fd \in 0..MaxTableFd, n \in 0..MaxRecvBuf : BeginRecv("c1", fd, n)
    \/ RecvChunk("c1")

SpecData == InitData /\ [][NextData]_vars

SpecMalformed == InitMalformed /\ [][NextData]_vars

----------------------------------------------------------------------------
(* SpecQueue *)

NextQueue ==
    \/ ReaderLock
    \/ ReadByte
    \/ ReaderUnlock
    \/ \E fd \in 0..1 : BeginRecv("c1", fd, 1)
    \/ RecvChunk("c1")

SpecQueue == InitQueue /\ [][NextQueue]_vars

----------------------------------------------------------------------------
(* SpecTable: the registry under the calls that write nothing to the        *)
(* device.  Caller c1 calls Socket with every kind of arguments, Bind, and  *)
(* Close on sockets that were never connected (Close writes a command only  *)
(* for a socket with an id), and passes descriptors that getSocket refuses  *)
(* to Connect, Send and Recv.                                               *)

NextTable ==
    \/ \E a \in SocketArgsNow : Socket("c1", a[1], a[2], a[3])
    \/ \E fd \in FdArgs : BeginClose("c1", fd)
    \/ \E fd \in SomeFdArgs, ip \in BindAddrs : Bind("c1", fd, ip)
    \/ \E fd \in BadFdArgs, host \in {<<>>, HostName} : BeginConnect("c1", fd, host)
    \/ \E fd \in BadFdArgs : BeginSend("c1", fd, 1)
    \/ \E fd \in BadFdArgs : BeginRecv("c1", fd, 1)

SpecTable == InitTable /\ [][NextTable]_vars

----------------------------------------------------------------------------
(* SpecLife: the life of a socket.  Slot 0 holds a socket, connected with   *)
(* id "3" or not yet connected.  Caller c1 calls Connect, Send, Recv, Close *)
(* and Socket; the device answers the commands with lines and markers and   *)
(* sends records and a disconnect for id "3" on its own.                    *)

LifeTables ==
    { [fd \in Fds |-> IF fd = 0 THEN s ELSE NULL] :
          s \in {NewSocket(TCP), Connected(<<"3">>)} }
LifeLines == {LineConID1 \o CRLF, LineConID2 \o CRLF, LineDomain \o CRLF}
LifeEvents == {RecDown(<<"3">>, <<"2">>, ChunkA), RecDisconnect(<<"3">>)}

InitLife ==
    /\ sockets \in LifeTables
    /\ uartRx = <<>>
    /\ buf = <<>>
    /\ last = <<>>
    /\ reader = "sleep"
    /\ pend = NoPend
    /\ uartMu = NONE
    /\ dLock = NONE
    /\ readers = 1
    /\ pc = [c \in Callers |-> "idle"]
    /\ op = [c \in Callers |-> NoRes]
    /\ outcome = [c \in Callers |-> NONE]
    /\ owed = 0
    /\ devLeft = MaxLifeEvents
    /\ answered = NONE
    /\ res = NoRes
    /\ enq = [fd \in Fds |-> <<>>]
    /\ got = [fd \in Fds |-> <<>>]
    /\ fed = <<>>

NextLife ==
    \/ ReaderLock
    \/ ReadBurst
    \/ ReaderUnlock
    \/ \E u \in LifeLines : DevLine(u)
    \/ \E u \in Terminals : DevTerminal(u)
    \/ \E u \in LifeEvents : DevEvent(u)
    \/ \E fd \in 0..MaxConnFd + 1, host \in {<<>>, HostName} : BeginConnect("c1", fd, host)
    \/ \E fd \in 0..MaxConnFd : BeginClose("c1", fd)
    \/ \E fd \in 0..MaxConnFd : BeginSend("c1", fd, 1)
    \/ \E fd \in 0..MaxConnFd, n \in {1, MaxRecvBuf} : BeginRecv("c1", fd, n)
    \/ RecvChunk("c1")
    \/ FreeSlot(sockets) <= MaxConnFd /\ Socket("c1", AF_INET, SOCK_STREAM, TCP)
    \/ \E werr \in BOOLEAN : Write("c1", werr)
    \/ Signal("c1")
    \/ Timeout("c1")
    \/ Continue("c1")

SpecLife == InitLife /\ [][NextLife]_vars

----------------------------------------------------------------------------
(* SpecNet: one caller calls NetConnect, with and without an SSID, up to    *)
(* MaxReaders times; the device answers its commands.                       *)

NextNet ==
    \/ ReaderLock
    \/ ReadBurst
    \/ ReaderUnlock
    \/ \E u \in Terminals : DevTerminal(u)
    \/ \E ssid \in {"", "ssid"} : NetConnectUpTo("c1", ssid, MaxReaders)
    \/ \E werr \in BOOLEAN : Write("c1", werr)
    \/ Signal("c1")
    \/ Timeout("c1")
    \/ Continue("c1")

SpecNet == Init /\ [][NextNet]_vars

----------------------------------------------------------------------------
(* SpecReady: the ready marker.  Caller c1 has written a command with send  *)
(* and waits; the device sends a few bytes drawn from '>', 'x', CR and LF,  *)
(* or a record whose payload holds '>'.  The reader takes them byte by byte.*)

ReadyBytes == {">", "x", CR, LF}
ReadyStreams ==
    UNION { [1..n -> ReadyBytes] : n \in 1..MaxReadyLen }
        \cup { RecDown(<<"3">>, <<"2">>, <<">","a">>),
               RecDown(<<"3">>, <<"3">>, <<"a",">","b">>) }

InitReady ==
    /\ sockets = [fd \in Fds |-> IF fd = 0 THEN Connected(<<"3">>) ELSE NULL]
    /\ uartRx \in ReadyStreams
    /\ buf = <<>>
    /\ last = <<>>
    /\ reader = "sleep"
    /\ pend = NoPend
    /\ uartMu = NONE
    /\ dLock = NONE
    /\ readers = 1
    /\ pc = [c \in Callers |-> IF c = "c1" THEN "wait" ELSE "idle"]
    /\ op = [c \in Callers |->
               IF c = "c1"
               THEN [name |-> "send", cmd |-> <<"AT+SOCKETSEND=", "3", ",", 1>>]
               ELSE NoRes]
    /\ outcome = [c \in Callers |-> NONE]
    /\ owed = 1
    /\ devLeft = 0
    /\ answered = NONE
    /\ res = NoRes
    /\ enq = [fd \in Fds |-> <<>>]
    /\ got = [fd \in Fds |-> <<>>]
    /\ fed = <<>>

NextReady ==
    \/ ReaderLock
    \/ ReadByte
    \/ ReaderUnlock
    \/ Signal("c1")
    \/ Timeout("c1")
    \/ Continue("c1")

SpecReady == InitReady /\ [][NextReady]_vars

----------------------------------------------------------------------------
(* SpecOverflow: the parse buffer at its capacity.  Caller c1 has written   *)
(* a command with execute and waits; the device sends BufCap bytes that     *)
(* hold no unit and then OK, or a SocketDown record whose payload alone has *)
(* BufCap bytes.  The reader takes them byte by byte.                       *)

Junk == [i \in 1..BufCap |-> "x"]
sBufCap == <<"1","5","0","0">>
OverflowStreams == { Junk \o UnitOK, RecDown(<<"1">>, sBufCap, Junk) }

InitOverflow ==
    /\ sockets = [fd \in Fds |-> IF fd = 0 THEN Connected(<<"1">>) ELSE NULL]
    /\ uartRx \in OverflowStreams
    /\ buf = <<>>
    /\ last = <<>>
    /\ reader = "sleep"
    /\ pend = NoPend
    /\ uartMu = NONE
    /\ dLock = NONE
    /\ readers = 1
    /\ pc = [c \in Callers |-> IF c = "c1" THEN "wait" ELSE "idle"]
    /\ op = [c \in Callers |-> IF c = "c1" THEN [name |-> "execute", cmd |-> <<"AT">>]
                                ELSE NoRes]
    /\ outcome = [c \in Callers |-> NONE]
    /\ owed = 1
    /\ devLeft = 0
    /\ answered = NONE
    /\ res = NoRes
    /\ enq = [fd \in Fds |-> <<>>]
    /\ got = [fd \in Fds |-> <<>>]
    /\ fed = <<>>

NextOverflow ==
    \/ ReaderLock
    \/ ReadByte
    \/ ReaderUnlock
    \/ Signal("c1")
    \/ Timeout("c1")
    \/ Continue("c1")

SpecOverflow == InitOverflow /\ [][NextOverflow]_vars

----------------------------------------------------------------------------
(* Claims about the data path, checked under SpecData *)

Occupied(fd) == sockets[fd] # NULL

\* the fields of a terminated SocketDown line, as processUART takes them
Sofar(b) == SubSeq(b, 1, Len(b) - 2)
IsDownLine(b) ==
    /\ HasSuffix(b, CRLF)
    /\ HasPrefix(Sofar(b), sEventSocketDown)
    /\ Len(SplitN(Sofar(b), ",", 4)) = 4
    /\ Atoi(SplitN(Sofar(b), ",", 4)[3]).ok
DownId(b) == SplitN(Sofar(b), ",", 4)[2]
Declared(b) == Atoi(SplitN(Sofar(b), ",", 4)[3]).val
Field4(b) == SplitN(Sofar(b), ",", 4)[4]
IsDisconnectLine(b) ==
    /\ HasSuffix(b, CRLF)
    /\ HasPrefix(Sofar(b), sEVENT \o sSocketDisconnect \o <<",">>)
DisconnectId(b) == SubSeq(Sofar(b), Len(sEVENT \o sSocketDisconnect) + 2, Len(Sofar(b)))

\* the reader has just read a byte; NextBuf is the buffer processUART sees
ReadsByte == fed' # fed
NextBuf == Append(buf, Head(uartRx))

\* C3: for a socket whose id equals <id>, a well-formed record
\* +EVENT:SocketDown,<id>,<length>,<data> CRLF fed to the reader enqueues
\* exactly one chunk, <data>, on that socket's queue and on no other, and resets
\* the parse buffer, whatever the other slots of the table hold.
C3_DownDelivered ==
    \A r \in DownRecords : \A fd \in Fds :
        (fed = RecDown(r.id, r.length, r.data) /\ Occupied(fd) /\ sockets[fd].id = r.id)
            => /\ reader # "panic"
               /\ buf = <<>>
               /\ enq[fd] = <<r.data>>
               /\ \A o \in Fds \ {fd} : enq[o] = <<>>

\* C4: a SocketDown record is not finalized at a CRLF inside <data>: while the
\* measured length of the 4th field differs from the declared length the reader
\* keeps the buffer and delivers nothing; a chunk is delivered only when the
\* lengths match, once, and it is the whole 4th field of the declared length.
C4_EmbeddedCRLF ==
    [][ ReadsByte =>
          /\ (IsDownLine(NextBuf) /\ Declared(NextBuf) # Len(Field4(NextBuf)))
                => (buf' = NextBuf /\ enq' = enq /\ sockets' = sockets
                    /\ reader' = "run")
          /\ (enq' # enq)
                => /\ IsDownLine(NextBuf)
                   /\ Declared(NextBuf) = Len(Field4(NextBuf))
                   /\ buf' = <<>>
                   /\ \E fd \in Fds :
                         /\ enq' = [enq EXCEPT ![fd] = Append(@, Field4(NextBuf))]
                         /\ sockets'[fd].rx = Append(sockets[fd].rx, Field4(NextBuf))
      ]_vars

C4_Witness ==
    /\ fed = RecDown(<<"3">>, <<"8">>, DataEmbedded)
    /\ buf = <<>>
    /\ \E fd \in Fds : enq[fd] = <<DataEmbedded>> /\ Occupied(fd)

\* C5: for every socket, the bytes Recv has returned, then remainder, then the
\* unread chunks of rx, are exactly the payloads enqueued for it, in arrival
\* order: nothing is dropped, duplicated or reordered.
C5_NoByteLost ==
    \A fd \in Fds :
        Occupied(fd) =>
            got[fd] \o sockets[fd].remainder \o Concat(sockets[fd].rx) = Concat(enq[fd])

C5_Witness ==
    \E fd \in Fds :
        /\ Occupied(fd)
        /\ got[fd] # <<>>
        /\ sockets[fd].remainder # <<>>
        /\ sockets[fd].rx # <<>>
        /\ Len(enq[fd]) = 2

\* C6: once a SocketDisconnect has closed a socket's queue, Recv on it never
\* blocks; it returns what remainder and the queue still hold, without error,
\* and when both are drained it returns 0 bytes and io.EOF.
Drained(fd) == sockets[fd].remainder = <<>> /\ sockets[fd].rx = <<>>
Available(fd) ==
    IF sockets[fd].remainder # <<>> THEN sockets[fd].remainder ELSE Head(sockets[fd].rx)

\* a call Recv(fd, buf) with len(buf) = n returns in this step: at once, or
\* from the receive it stood at
RecvReturns(fd, n) ==
    \E c \in Callers :
        \/ BeginRecv(c, fd, n) /\ pc'[c] = "idle"
        \/ pc[c] = "recv" /\ op[c].fd = fd /\ op[c].n = n /\ RecvChunk(c)
\* caller c stands in Recv at the receive from the queue of slot fd
AtReceive(c, fd) == pc[c] = "recv" /\ op[c].fd = fd

C6_EofAfterDisconnect ==
    /\ [](\A fd \in Fds : (Alive /\ Occupied(fd) /\ sockets[fd].closed)
              => \A c \in Callers : AtReceive(c, fd) => ENABLED RecvChunk(c))
    /\ [][ \A fd \in Fds, n \in 0..MaxRecvBuf :
             (Occupied(fd) /\ sockets[fd].closed /\ RecvReturns(fd, n))
                => IF Drained(fd)
                   THEN res'.n = 0 /\ res'.err = EOF /\ got' = got
                        /\ sockets' = sockets
                   ELSE /\ res'.err = "nil"
                        /\ res'.n = Min(n, Len(Available(fd)))
                        /\ got'[fd] = got[fd] \o SubSeq(Available(fd), 1, res'.n)
                        /\ sockets'[fd].closed
       ]_vars

C6_Witness ==
    /\ res.op = "Recv"
    /\ res.err = EOF
    /\ Occupied(res.fd)
    /\ sockets[res.fd].closed
    /\ got[res.fd] # <<>>
    /\ got[res.fd] = Concat(enq[res.fd])

\* C7: closing is terminal: an event that names the id of a socket whose queue a
\* SocketDisconnect has closed (a SocketDown record or another SocketDisconnect)
\* leaves the queue closed and unchanged, and the reader goes on.
NamesSocket(b, fd) ==
    \/ /\ IsDownLine(b)
       /\ Declared(b) = Len(Field4(b))
       /\ findSocket(sockets, DownId(b)) = [k |-> "found", fd |-> fd]
    \/ /\ IsDisconnectLine(b)
       /\ findSocket(sockets, DisconnectId(b)) = [k |-> "found", fd |-> fd]

C7_ClosedIsTerminal ==
    [][ ReadsByte =>
          \A fd \in Fds :
              (Occupied(fd) /\ sockets[fd].closed /\ NamesSocket(NextBuf, fd))
                  => (reader' = "run" /\ sockets'[fd] = sockets[fd] /\ buf' = <<>>)
      ]_vars

----------------------------------------------------------------------------
(* Claims about the socket registry, checked under SpecTable (C8) and      *)
(* SpecLife (C9, C10)                                                      *)

AllOccupied == \A fd \in Fds : Occupied(fd)
ValidSocketArgs == { a \in SocketArgs : SocketArgsErr(a[1], a[2], a[3]) = "nil" }

\* C8: with valid arguments Socket() succeeds whenever a slot is empty, and
\* fails with the no-more-sockets error, leaving the table unchanged, exactly
\* when all 8 slots are occupied.
C8_SocketCapacity ==
    [][ \A a \in ValidSocketArgs \cap SocketArgsNow :
          (\E c \in Callers : Socket(c, a[1], a[2], a[3])) =>
              IF AllOccupied
              THEN res'.err = ErrNoMoreSockets /\ res'.fd = -1 /\ sockets' = sockets
              ELSE /\ res'.err = "nil"
                   /\ res'.fd \in Fds
                   /\ ~Occupied(res'.fd)
                   /\ sockets'[res'.fd] = NewSocket(a[3])
                   /\ \A o \in Fds \ {res'.fd} : sockets'[o] = sockets[o]
      ]_vars

C8_Witness ==
    /\ res.op = "Socket"
    /\ res.err = ErrNoMoreSockets
    /\ Cardinality({fd \in Fds : Occupied(fd)}) = 8

\* C9: Close on a valid descriptor always frees the slot, also when the delete
\* command fails or times out.
C9_CloseAlwaysFrees ==
    (res.op = "Close" /\ res.err # ErrInvalidSocketFd) => ~Occupied(res.fd)

\* C10: between Socket() and Close() a socket's id changes at most once, from
\* empty to non-empty, and only by a successful Connect on its descriptor; a
\* non-empty id is never changed again.
C10_IdSetOnce ==
    [][ \A fd \in Fds :
          (Occupied(fd) /\ sockets'[fd] # NULL /\ sockets'[fd].id # sockets[fd].id)
              => /\ sockets[fd].id = <<>>
                 /\ res'.op = "Connect" /\ res'.fd = fd /\ res'.err = "nil"
      ]_vars

----------------------------------------------------------------------------
(* Claims about command serialization *)

Waiting(c) == pc[c] = "wait"
Writes(c) == pc[c] = "write" /\ pc'[c] = "wait"

\* C1: two concurrent calls of execute (or send) never interleave their writes:
\* no call writes its command while another call, which has written, is still
\* in its select with no outcome.  Checked under SpecExec, where the calls are
\* made as the functions stand.
C1_ExecuteSerialized ==
    [][\A c \in Callers : Writes(c) => \A o \in Callers \ {c} : ~Waiting(o)]_vars

\* C2: with commands issued only through the public operations, at most one
\* command is outstanding: no operation writes (a command or a payload) while
\* another operation is awaiting an outcome, and never are two awaiting.
C2_OneOutstanding ==
    /\ [](Cardinality({c \in Callers : Waiting(c)}) <= 1)
    /\ [][\A c \in Callers : Writes(c) => \A o \in Callers \ {c} : ~Waiting(o)]_vars

\* one caller awaits the outcome of Send's payload while the other has had an
\* operation return that issues no command
C2_Witness ==
    \E c \in Callers :
        /\ Waiting(c) /\ op[c].name = "Send" /\ op[c].stage = "payload"
        /\ \E o \in Callers \ {c} : pc[o] = "idle"
        /\ res.op = "GetHostByName"

----------------------------------------------------------------------------
(* Claims about device-reported errors *)

DeviceError(o) == o \notin {NONE, "ok", "timeout"}

\* C20: when the device answers the outstanding command with ERROR:<code>, the
\* failure the command gets carries the catalog entry of <code>.  The only
\* ERROR line the device of Spec sends is ERROR:105.
C20_ErrorDecoded ==
    \A c \in Callers : DeviceError(outcome[c]) => outcome[c] = ErrString(105)

----------------------------------------------------------------------------
(* Claims about the correlation of commands and answers *)

\* caller c's Connect returns success in this step
ConnectSucceeds(c) ==
    /\ pc[c] = "cont" /\ pc'[c] = "idle"
    /\ op[c].name = "Connect" /\ op[c].stage = "connect"
    /\ res'.op = "Connect" /\ res'.err = "nil"

\* C11: on a successful Connect the stored id is the identifier of the
\* <field>=<id> line the device sent in answer to that connect command (the line
\* it sent after the command was written), not one of an earlier line.
C11_IdFromOwnAnswer ==
    [][\A c \in Callers : (ConnectSucceeds(c) /\ answered # NONE) =>
          sockets'[op[c].fd].id = ConnectedId(sockets[op[c].fd], Sofar(answered))]_vars

----------------------------------------------------------------------------
(* Claims about Send *)

OpName(c) == IF "name" \in DOMAIN op[c] THEN op[c].name ELSE NONE
InSend(c, stage) == OpName(c) = "Send" /\ op[c].stage = stage
\* caller c's wait ends with a value received from the reader, not the ticker
Receives(c) == pc[c] = "wait" /\ pc'[c] = "cont" /\ outcome'[c] = "ok"

\* C12: in Send the command is written, then the ready-to-send marker is
\* received, then the payload is written, then the final OK is received, and
\* only then Send returns n: the payload stage begins only after the wait of
\* the command has received from d.txReady, and Send returns success only
\* after the wait of the payload has received from d.ok.
C12_SendOrder ==
    [][\A c \in Callers :
          /\ (InSend(c, "stage") /\ Receives(c)) => reader = "txReady"
          /\ (InSend(c, "stage") /\ op'[c] # op[c] /\ pc'[c] = "write")
                => (pc[c] = "cont" /\ outcome[c] = "ok" /\ InSend(c, "payload")')
          /\ (InSend(c, "payload") /\ Receives(c)) => reader = "ok"
          /\ (OpName(c) = "Send" /\ pc'[c] = "idle" /\ res'.err = "nil")
                => (InSend(c, "payload") /\ pc[c] = "cont" /\ outcome[c] = "ok")]_vars

\* a Send has returned n
C12_Witness == res.op = "Send" /\ res.err = "nil"

----------------------------------------------------------------------------
(* Claims about timeouts *)

\* The reader is blocked sending a marker on d.ok, d.err or d.txReady (holding
\* d.uartMu) and no caller is in a select.  No step leaves this condition: a
\* caller reaches a select only through a write, which needs d.uartMu.
Stuck ==
    /\ Alive
    /\ reader \in {"ok", "err", "txReady"}
    /\ uartMu = "reader"
    /\ \A c \in Callers : ~Waiting(c)

StuckIsForever == [][Stuck => Stuck']_vars

\* C13: every execute call terminates with one outcome (OK, error or timeout):
\* no call that has been made and has not written yet is in a state where it
\* can never take d.uartMu, so never starts its countdown and never returns.
C13_ExecuteTerminates ==
    \A c \in Callers : (pc[c] = "write" /\ OpName(c) = "execute") => ~Stuck

\* C15: a command timeout does not corrupt the device state: when the late
\* marker of a timed-out command arrives, the reader is not blocked for good,
\* and a later command still gets to write.
C15_TimeoutHarmless == ~Stuck


\* caller c is in the select of execute (or of Send after the payload)
ThroughExecute(c) ==
    \/ OpName(c) \in {"NetConnect", "NetDisconnect", "GetHostByName", "Connect",
                      "Close", "execute"}
    \/ InSend(c, "payload")
ExecWait(c) == Waiting(c) /\ ThroughExecute(c)
\* the reader has parsed OK or ERROR and is sending it on d.ok or d.err
Parsed == reader \in {"ok", "err"}

\* caller c is in a select that receives from the channel the reader sends on
CanReceive(c) == Waiting(c) /\ reader \in Awaits(op[c])

\* caller c has issued a command (it is at the write of execute, send or Send's
\* payload, or in the select after it) that the response the reader holds was
\* not sent for: the command is not written yet, or the device still owes its
\* answer
IssuedNext(c) ==
    \/ pc[c] = "write"
    \/ Waiting(c) /\ owed >= 1

\* C14: the OK or ERROR of a timed-out command that arrives after the timeout
\* is delivered as the outcome of the next command the caller issues: whenever
\* the reader holds such a response and the next command has been issued, that
\* command is in a select that receives it.
C14_StaleDelivered ==
    \A c \in Callers : (Parsed /\ IssuedNext(c)) => CanReceive(c)

\* The reader holds a response and no caller is in a select that receives it.
\* No step leaves this condition: the reader keeps d.uartMu while it sends, a
\* caller reaches a select only through a write, and the select of d.send (the
\* one a caller can already be in) ends by its timer only.
NoReceiver == Parsed /\ \A c \in Callers : ~CanReceive(c)

NoReceiverIsForever == [][NoReceiver => NoReceiver' /\ reader' = reader]_vars

\* The part of the claim the code keeps: a response the reader parses while a
\* command is in the select of execute (or Send's last select) can be received
\* by it, and what that select receives from the reader is what was parsed.
ReceivedInSelect ==
    /\ [](\A c \in Callers : (ExecWait(c) /\ Parsed) => ENABLED Signal(c))
    /\ [][\A c \in Callers : (ExecWait(c) /\ pc'[c] = "cont" /\ outcome'[c] # "timeout")
             => /\ Parsed
                /\ outcome'[c] = IF reader = "err" THEN pend.msg ELSE "ok"
                /\ reader' = "run"]_vars

\* a command has received OK while the device still owes an answer: the OK was
\* the answer to an earlier command, which timed out
StaleReceived ==
    \E c \in Callers :
        /\ pc[c] = "cont" /\ outcome[c] = "ok" /\ owed >= 1
        /\ ThroughExecute(c)

\* the two ways the response is lost: parsed before the next command is
\* written, and a stale OK parsed while the next command waits in d.send
LostBeforeWrite == \E c \in Callers : Parsed /\ pc[c] = "write"
LostOnSend == \E c \in Callers : reader = "ok" /\ Waiting(c) /\ owed >= 1 /\ ~CanReceive(c)

----------------------------------------------------------------------------
(* Claims about the queues *)

QueueLen(fd) == Len(sockets[fd].rx)

\* C16: no queue ever holds more than 10 chunks; the reader blocks with a
\* chunk in hand exactly when the chunk's queue holds 10; while it is blocked
\* nothing more is read, parsed or dispatched (the buffer, d.last, the UART's
\* bytes and every queue's history stay as they are), and it goes on only
\* when a Recv takes a chunk from that queue: the receive makes the room and
\* the chunk the reader held is queued behind what was there.
C16_HeadOfLine ==
    /\ [](\A fd \in Fds : Occupied(fd) => QueueLen(fd) <= RxCap)
    /\ [][(reader # "rx" /\ reader' = "rx") => Len(sockets'[pend'.fd].rx) = RxCap]_vars
    /\ [][reader = "rx" =>
            /\ buf' = buf /\ last' = last /\ uartRx' = uartRx /\ fed' = fed
            /\ \A fd \in Fds \ {pend.fd} : enq'[fd] = enq[fd]
            /\ \/ reader' = "rx" /\ pend' = pend /\ enq' = enq
               \/ /\ \E c \in Callers : AtReceive(c, pend.fd) /\ pc'[c] = "idle"
                  /\ reader' = "run"
                  /\ sockets'[pend.fd].rx = Append(Tail(sockets[pend.fd].rx), pend.data)
                  /\ enq'[pend.fd] = Append(enq[pend.fd], pend.data)]_vars

\* the reader, once blocked at a full queue with input left unread, has gone
\* on after a Recv and delivered the chunk it held
C16_Witness ==
    /\ reader # "rx"
    /\ Len(enq[0]) > RxCap
    /\ got[0] # <<>>

----------------------------------------------------------------------------
(* Claims about argument validation *)

Supported(a) ==
    /\ a[1] = AF_INET
    /\ <<a[2], a[3]>> \in { <<SOCK_STREAM, TCP>>, <<SOCK_STREAM, TLS>>, <<SOCK_DGRAM, UDP>> }

Refused(err) ==
    /\ res'.op = "Socket" /\ res'.fd = -1 /\ res'.err = err
    /\ sockets' = sockets /\ enq' = enq /\ got' = got
    /\ owed' = owed /\ uartRx' = uartRx /\ fed' = fed /\ last' = last

\* C18: a call of Socket succeeds only with domain IPv4 and (type, protocol)
\* one of stream+TCP, stream+TLS, datagram+UDP; with another domain it returns
\* -1 and family-not-supported whatever the type and protocol are, with IPv4
\* and another pair -1 and protocol-not-supported; a refused call allocates
\* no slot and writes no command.
C18_SocketValidates ==
    [][\A a \in SocketArgs : (\E c \in Callers : Socket(c, a[1], a[2], a[3])) =>
          /\ res'.err = "nil" => Supported(a)
          /\ a[1] # AF_INET => Refused(ErrFamilyNotSupported)
          /\ (a[1] = AF_INET /\ ~Supported(a)) => Refused(ErrProtocolNotSupported)]_vars

\* Socket has refused a call for its family while slots were free
C18_Witness ==
    /\ res.op = "Socket" /\ res.fd = -1 /\ res.err = ErrFamilyNotSupported
    /\ \E fd \in Fds : sockets[fd] = NULL
    /\ \E fd \in Fds : sockets[fd] # NULL


FdOps == {"Bind", "Connect", "Send", "Recv", "Close"}
InvalidFd(fd) == fd < 0 \/ fd >= NSockets \/ sockets[fd] = NULL

\* C19: a call of Bind, Connect, Send, Recv or Close with a descriptor that is
\* negative, 8 or larger, or of an empty slot returns the invalid-descriptor
\* error, writes no command and leaves the table, the queues and what was
\* received as they were.
C19_InvalidFdRefused ==
    [][(res'.op \in FdOps /\ InvalidFd(res'.fd)) =>
          /\ res'.err = ErrInvalidSocketFd
          /\ res'.cmds = 0
          /\ sockets' = sockets /\ enq' = enq /\ got' = got
          /\ last' = last /\ uartRx' = uartRx /\ owed' = owed]_vars

\* Bind has refused the descriptor of an empty slot while other slots were
\* taken
C19_Witness ==
    /\ res.op = "Bind" /\ res.fd \in Fds /\ res.err = ErrInvalidSocketFd
    /\ sockets[res.fd] = NULL
    /\ \E fd \in Fds : sockets[fd] # NULL /\ sockets[fd].laddr # NONE


Unsupported == {"Listen", "Accept"}

\* C17: a call of Listen or Accept, with any descriptor and whatever the
\* callers, the reader and the device are doing, returns the not-supported
\* error and changes nothing else: no command is written, no mutex taken, and
\* the table, the queues and the parse state stay as they are.
C17_NotSupported ==
    [][(res'.op \in Unsupported /\ res' # res) =>
          /\ res'.err = ErrNotSupported
          /\ UNCHANGED <<sockets, buf, last, uartRx, reader, pend, uartMu, dLock,
                         readers, pc, op, outcome, owed, devLeft, enq, got, fed,
                         answered>>]_vars

\* Listen has returned while another operation holds the device mutex and
\* waits for the answer to its command, with a socket allocated
C17_Witness ==
    /\ res.op = "Listen"
    /\ dLock # NONE
    /\ \E c \in Callers : pc[c] = "wait"
    /\ sockets[0] # NULL

----------------------------------------------------------------------------
(* Claims about the error catalog *)

Decoded == res.op = "getErrStr"
\* the token getErrStr converts, when the line has one
HasCode(l) == Len(Split(l, ":")) > 1
Code(l) == Atoi(Split(l, ":")[2])

\* C21: a line that has no second ':'-separated token, or whose second token
\* is not an integer, decodes to the can't-parse message.
C21_CantParse ==
    (Decoded /\ (~HasCode(last) \/ ~Code(last).ok)) => res.err = ErrCantParse

\* a line with a code that is no integer, and a line without ':', have been
\* decoded
C21_Witness ==
    /\ Decoded
    /\ HasCode(last) /\ ~Code(last).ok /\ Split(last, ":")[2] # <<>>

\* C22: a line whose code is an integer the catalog does not hold decodes to
\* a non-empty message.
C22_UnknownCode ==
    (Decoded /\ HasCode(last) /\ Code(last).ok /\ Code(last).val \notin DOMAIN errStrings)
        => res.err # ""

----------------------------------------------------------------------------
(* Claims about framing errors *)

\* the reader finds the buffer full: println, d.pos = 0, break
Overflows == reader = "run" /\ uartRx # <<>> /\ Len(buf) >= BufCap /\ reader' = "sleep"

\* what the reader does at a full buffer: the position never passes the
\* capacity, the buffer is emptied, no byte is taken from the UART and nothing
\* is enqueued or signalled
OverflowResets ==
    /\ [](Len(buf) <= BufCap)
    /\ [][Overflows => /\ buf' = <<>> /\ uartRx' = uartRx
                       /\ enq' = enq /\ sockets' = sockets
                       /\ pend' = pend /\ pc' = pc /\ outcome' = outcome]_vars

\* C23: the buffer never holds more than BufCap bytes; when it is full and no
\* unit was recognized the reader empties it and enqueues nothing; and a
\* caller that waits for the answer to its command at that moment gets a
\* framing error then, not a timeout later.
C23_OverflowFailsCommand ==
    /\ [](Len(buf) <= BufCap)
    /\ [][Overflows => buf' = <<>> /\ enq' = enq /\ sockets' = sockets]_vars
    /\ [][Overflows => \A c \in Callers :
              pc[c] = "wait" => (pc'[c] = "cont" /\ DeviceError(outcome'[c]))]_vars


\* a decimal integer as strconv.Atoi takes it
IsInteger(s) ==
    LET d == IF s # <<>> /\ s[1] \in {"+", "-"} THEN Tail(s) ELSE s
    IN  d # <<>> /\ \A i \in 1..Len(d) : IsDigit(d[i])

\* b is a terminated SocketDown line with fewer than four fields or with a
\* length field that is no integer
MalformedDown(b) ==
    /\ HasSuffix(b, CRLF)
    /\ LET line == SubSeq(b, 1, Len(b) - 2)
           fields == SplitN(line, ",", 4)
       IN  /\ HasPrefix(line, sEventSocketDown)
           /\ Len(fields) < 4 \/ ~IsInteger(fields[3])

\* the reader takes the byte that completes a malformed SocketDown line
ReadsMalformed ==
    /\ reader = "run" /\ uartRx # <<>> /\ Len(buf) < BufCap
    /\ uartRx' = Tail(uartRx)
    /\ MalformedDown(Append(buf, Head(uartRx)))

\* C24: when the reader has read a terminated SocketDown line with fewer than
\* four fields or a length that is no integer, it empties the buffer, leaves
\* every queue as it is and signals no waiter (it goes on reading).
C24_MalformedDropped ==
    [][ReadsMalformed =>
          /\ buf' = <<>>
          /\ enq' = enq /\ sockets' = sockets
          /\ reader' = "run" /\ pend' = pend /\ last' = last]_vars

\* a line with a length that is no number has been dropped, with its socket
\* open and nothing enqueued
C24_Witness ==
    /\ buf = <<>> /\ reader = "run"
    /\ fed = RecDown(<<"3">>, <<"x">>, DataHello)
    /\ \E fd \in Fds : Occupied(fd) /\ sockets[fd].id = <<"3">> /\ enq[fd] = <<>>

----------------------------------------------------------------------------
(* Claims about the mutexes *)

\* C25: a caller whose execute or send has returned (it is past the select,
\* or back from a failed write) does not hold d.uartMu, and a caller that is
\* not inside a public operation does not hold the device mutex.
C25_LocksReleased ==
    \A c \in Callers :
        /\ pc[c] \in {"idle", "cont"} => uartMu # c
        /\ pc[c] = "idle" => dLock # c

\* a Send has returned on a failed write, and both mutexes are free
C25_Witness ==
    /\ res.op = "Send" /\ res.err = ErrWrite
    /\ dLock = NONE /\ uartMu = NONE
    /\ \A c \in Callers : pc[c] = "idle"

----------------------------------------------------------------------------
(* Claims about Recv *)

\* C26: a Recv on a socket whose remainder is empty returns only when the
\* queue holds a chunk or is closed (the deadline is not read); a Recv on a
\* socket with a remainder returns min(len(buf), len(remainder)) bytes of it
\* and leaves the queue as it is.
C26_RecvBlocks ==
    [][\A fd \in Fds, n \in 0..MaxRecvBuf :
          (Occupied(fd) /\ RecvReturns(fd, n)) =>
              LET s == sockets[fd]
                  k == Min(n, Len(s.remainder))
              IN  /\ Len(s.remainder) = 0 => (s.rx # <<>> \/ s.closed)
                  /\ Len(s.remainder) > 0 =>
                        /\ res'.n = k /\ res'.err = "nil"
                        /\ got'[fd] = got[fd] \o SubSeq(s.remainder, 1, k)
                        /\ sockets'[fd].remainder =
                               SubSeq(s.remainder, k + 1, Len(s.remainder))
                        /\ sockets'[fd].rx = s.rx]_vars

\* a Recv has returned two bytes of a remainder and left one
C26_Witness ==
    /\ res.op = "Recv" /\ res.n = 2 /\ res.fd \in Fds
    /\ sockets[res.fd] # NULL
    /\ sockets[res.fd].remainder = <<"o">>
    /\ got[res.fd] = <<"h","e","l","l">>

----------------------------------------------------------------------------
(* Claims about the ready marker *)

\* C27: the byte '>' read into an empty buffer is the ready marker: the buffer
\* is emptied and ready-to-send is signalled at once, with no CRLF; no other
\* byte and no '>' at a later place in the buffer signals it, and such a '>'
\* stays in the buffer as content.
C27_ReadyMarker ==
    [][ReadsByte =>
          LET b == NextBuf
          IN  /\ b = <<">">> => (buf' = <<>> /\ reader' = "txReady")
              /\ b # <<">">> => reader' # "txReady"
              /\ (Head(uartRx) = ">" /\ buf # <<>>) => (buf' = b /\ reader' = "run")]_vars

\* a payload with '>' in it was enqueued whole and signalled nothing
PayloadKept == enq[0] = << <<"a", ">", "b">> >> /\ pc["c1"] = "wait" /\ reader = "run"

\* the waiting send got the marker that followed a line
C27_Witness ==
    /\ fed = <<"x", CR, LF, ">">>
    /\ buf = <<>>
    /\ outcome["c1"] = "ok" /\ pc["c1"] = "cont"

----------------------------------------------------------------------------
(* Claims about the reader task *)

\* C28: whatever calls of NetConnect were made, failed ones and repeated ones
\* included, the device has one reader task and no more.
C28_OneReader == readers <= 1

----------------------------------------------------------------------------
(* Claims about Recv and Send under inbound traffic *)

\* the reader holds a chunk for a queue that is full
ReaderAtFullQueue ==
    /\ reader = "rx" /\ uartMu = "reader"
    /\ pend.fd \in Fds /\ sockets[pend.fd] # NULL /\ ~HasRoom(sockets[pend.fd])

\* caller c is in Recv on socket 0 at the receive from its empty queue, the
\* chunk for socket 0 is on the transport behind a chunk the reader cannot
\* enqueue for socket 1, and every other caller is outside the device mutex
RecvDeadlock(c) ==
    /\ pc[c] = "recv" /\ op[c].fd = 0 /\ dLock = c
    /\ sockets[0].rx = <<>> /\ ~sockets[0].closed
    /\ ReaderAtFullQueue /\ pend.fd = 1
    /\ uartRx = RecDown(<<"3">>, <<"2">>, ChunkA)
    /\ \A d \in Callers \ {c} : pc[d] = "idle"

\* caller c is in Send before the write of its command or payload, with the
\* device mutex, while the reader holds d.uartMu at a full queue
SendDeadlock(c) ==
    /\ pc[c] = "write" /\ op[c].name = "Send" /\ dLock = c
    /\ ReaderAtFullQueue

\* neither state is ever left: no caller can take the device mutex to drain
\* the full queue, so the reader never releases d.uartMu
DeadlocksAreForever ==
    [][\A c \in Callers : /\ RecvDeadlock(c) => RecvDeadlock(c)'
                          /\ SendDeadlock(c) => SendDeadlock(c)']_vars

\* C29: a caller blocked in Recv on a socket whose data is on the transport
\* is never locked out of it for good by the full queue of another socket:
\* the state in which it holds the device mutex, the reader is blocked at the
\* other socket's full queue and nobody can drain that queue is not reached.
C29_RecvNotStarved == \A c \in Callers : ~RecvDeadlock(c)

\* C30: a Send in progress is never blocked for good by the reader's blocking
\* at a full queue: the state in which it waits for d.uartMu, held by the
\* blocked reader, while holding the device mutex a Recv would need, is not
\* reached.
C30_SendNotBlocked == \A c \in Callers : ~SendDeadlock(c)

----------------------------------------------------------------------------
(* Claims about events for unknown ids *)

NoSocketHas(id) == \A fd \in Fds : Occupied(fd) => sockets[fd].id # id

\* the byte being read completes a SocketDown record or a SocketDisconnect
\* event whose id no socket of the table has
CompletesUnknownEvent ==
    \/ /\ IsDownLine(NextBuf)
       /\ Declared(NextBuf) = Len(Field4(NextBuf))
       /\ NoSocketHas(DownId(NextBuf))
    \/ /\ IsDisconnectLine(NextBuf)
       /\ NoSocketHas(DisconnectId(NextBuf))

\* C31: when the reader completes a SocketDown or SocketDisconnect event whose
\* id no socket has, whatever the table holds, no socket changes, nothing is
\* enqueued, the buffer is emptied and the reader goes on reading.
C31_UnknownIdIgnored ==
    [][(ReadsByte /\ CompletesUnknownEvent) =>
          /\ sockets' = sockets /\ enq' = enq
          /\ buf' = <<>>
          /\ reader' = "run"]_vars

----------------------------------------------------------------------------
(* Claims about descriptors *)

\* a call of Socket has taken a slot (the step is the caller's, not the
\* reader's: no byte is read)
Allocates ==
    /\ res'.op = "Socket" /\ res'.err = "nil" /\ sockets' # sockets
    /\ fed' = fed

\* C32: the descriptor a successful Socket returns is the lowest empty slot:
\* every slot below it is occupied, so an empty table gives 0, 1, ..., 7 in
\* turn and a freed descriptor is given out again before any higher one.
C32_LowestFree ==
    [][Allocates =>
          /\ res'.fd \in Fds
          /\ ~Occupied(res'.fd)
          /\ \A g \in 0..(res'.fd - 1) : Occupied(g)
          /\ sockets'[res'.fd] # NULL]_vars

\* descriptor 1 was given out again after its Close, with 0 and 2 still open
\* and higher slots empty
C32_Witness ==
    /\ res.op = "Socket" /\ res.err = "nil" /\ res.fd = 1
    /\ Occupied(0) /\ Occupied(1) /\ Occupied(2)
    /\ ~Occupied(3)

----------------------------------------------------------------------------
(* Claims about the life of a socket, checked under SpecLife *)

\* a call of Recv has handed out bytes of the socket in slot fd
RecvHandsOut(fd) == res'.op = "Recv" /\ res'.fd = fd /\ got'[fd] # got[fd]

\* a call of Recv has reported the end of the stream of slot fd
ReceivesEOF(fd) == res'.op = "Recv" /\ res'.fd = fd /\ res'.err = EOF /\ res' # res

\* C33: a socket allocated by Socket, in a slot used before or not, has an
\* empty id, an empty remainder and an empty open queue; what Recv hands out
\* on a slot are bytes enqueued since the slot's present socket was allocated,
\* and it reports the end of the stream only when that socket's queue was
\* closed.
C33_FreshOnReuse ==
    [][/\ Allocates =>
             /\ sockets'[res'.fd].id = <<>>
             /\ sockets'[res'.fd].remainder = <<>>
             /\ sockets'[res'.fd].rx = <<>>
             /\ sockets'[res'.fd].closed = FALSE
             /\ enq'[res'.fd] = <<>> /\ got'[res'.fd] = <<>>
       /\ \A fd \in Fds :
             /\ RecvHandsOut(fd) =>
                   /\ Len(got'[fd]) <= Len(Concat(enq[fd]))
                   /\ got'[fd] = SubSeq(Concat(enq[fd]), 1, Len(got'[fd]))
             /\ ReceivesEOF(fd) => sockets[fd].closed]_vars

\* slot 0 was allocated again after its first socket had a record delivered
\* by the reader and was closed, the device confirming the delete command
C33_Witness ==
    /\ res.op = "Socket" /\ res.err = "nil" /\ res.fd = 0
    /\ Alive
    /\ devLeft < MaxLifeEvents /\ uartRx = <<>> /\ buf = <<>>
    /\ Occupied(0) /\ sockets[0].rx = <<>> /\ enq[0] = <<>>

\* a step caller c takes inside Connect: the call, a write, the end of a wait
\* or what follows it
StepOfConnect(c) ==
    \/ OpName(c) = "Connect" /\ pc'[c] # pc[c]
    \/ pc[c] = "idle" /\ OpName(c)' = "Connect"
\* a call of Connect returns before any command: no caller changes place
ConnectRefused == pc' = pc /\ res'.op = "Connect" /\ res' # res

\* C34: a Connect that returns an error, whatever the error, changes no
\* socket: id, queue and remainder are as before and the slot is still
\* occupied by the same socket.
C34_FailedConnectKeepsSocket ==
    [][(ConnectRefused \/ \E c \in Callers : StepOfConnect(c) /\ ~ConnectSucceeds(c))
          => /\ res'.op = "Connect" => res'.err # "nil"
             /\ sockets' = sockets
             /\ enq' = enq /\ got' = got]_vars

\* Connect failed with the device's ERROR (its message made from d.last, which
\* held no line) on a connected socket that holds a remainder and a queued
\* record
C34_Witness ==
    /\ res.op = "Connect" /\ res.err = ErrCantParse
    /\ Occupied(res.fd)
    /\ sockets[res.fd].id = <<"3">>
    /\ sockets[res.fd].remainder # <<>>
    /\ sockets[res.fd].rx # <<>>

----------------------------------------------------------------------------
(* SpecModes: Connect step by step, by concurrent callers, on a UDP, a TCP  *)
(* and a TLS socket that Socket has allocated; the device answers the       *)
(* commands it is sent.                                                     *)

ModeTable ==
    [fd \in Fds |->
        CASE fd = 0 -> NewSocket(UDP)
          [] fd = 1 -> NewSocket(TCP)
          [] fd = 2 -> NewSocket(TLS)
          [] OTHER -> NULL]

InitModes ==
    /\ sockets = ModeTable
    /\ uartRx = <<>>
    /\ buf = <<>>
    /\ last = <<>>
    /\ reader = "sleep"
    /\ pend = NoPend
    /\ uartMu = NONE
    /\ dLock = NONE
    /\ readers = 1
    /\ pc = [c \in Callers |-> "idle"]
    /\ op = [c \in Callers |-> NoRes]
    /\ outcome = [c \in Callers |-> NONE]
    /\ owed = 0
    /\ devLeft = 0
    /\ answered = NONE
    /\ res = NoRes
    /\ enq = [fd \in Fds |-> <<>>]
    /\ got = [fd \in Fds |-> <<>>]
    /\ fed = <<>>

NextModes ==
    \/ ReaderLock
    \/ ReadBurst
    \/ ReaderUnlock
    \/ \E u \in DeviceLines : DevLine(u)
    \/ \E u \in Terminals : DevTerminal(u)
    \/ \E c \in Callers :
          \/ \E fd \in {0, 1, 2, 3}, host \in {<<>>, HostName} : BeginConnect(c, fd, host)
          \/ \E werr \in BOOLEAN : Write(c, werr)
          \/ Signal(c)
          \/ Timeout(c)
          \/ Continue(c)

SpecModes == InitModes /\ [][NextModes]_vars

\* caller c is in Connect, at the name lookup or at the connect command
InConnect(c, stage) == OpName(c) = "Connect" /\ op[c].stage = stage
\* caller c writes the command of its present stage to the transport
WritesCmd(c) == pc[c] = "write" /\ pc'[c] # "write"
\* the mode the connect command carries for a socket
ModeOf(s) ==
    CASE s.protocol = UDP -> "2" [] s.protocol = TCP -> "4" [] s.protocol = TLS -> "7"

\* C35: Connect with a host writes the lookup command first, and comes to
\* the connect command only when the wait of the lookup has returned success;
\* when that wait failed Connect returns the failure with no further command.
\* Connect with an empty host goes to the connect command directly.  The
\* connect command written is AT+SOCKET= with mode 2 on a UDP, 4 on a TCP and
\* 7 on a TLS socket.
C35_ConnectOrder ==
    [][\A c \in Callers :
          /\ (pc[c] = "idle" /\ InConnect(c, "lookup")')
                => op'[c].cmd = <<"AT+WDOMAIN=", HostName>>
          /\ (pc[c] = "idle" /\ InConnect(c, "connect")')
                => ~(\E fd \in Fds : BeginConnect(c, fd, HostName))
          /\ (pc[c] = "idle" /\ InConnect(c, "lookup")')
                => ~(\E fd \in Fds : BeginConnect(c, fd, <<>>))
          /\ (InConnect(c, "lookup") /\ op'[c] # op[c] /\ InConnect(c, "connect")')
                => /\ pc[c] = "cont" /\ outcome[c] = "ok"
                   /\ pc'[c] = "write"
          /\ (InConnect(c, "lookup") /\ pc[c] = "cont" /\ outcome[c] # "ok"
                /\ pc'[c] # pc[c])
                => /\ pc'[c] = "idle" /\ op'[c] = NoRes
                   /\ res'.op = "Connect" /\ res'.err = OutcomeErr(outcome[c])
          /\ (InConnect(c, "lookup") /\ WritesCmd(c))
                => op[c].cmd = <<"AT+WDOMAIN=", HostName>>
          /\ (InConnect(c, "connect") /\ WritesCmd(c))
                => /\ Occupied(op[c].fd)
                   /\ op[c].cmd[1] = "AT+SOCKET="
                   /\ op[c].cmd[2] = ModeOf(sockets[op[c].fd])]_vars

\* a caller has written the connect command of the TLS socket, mode 7, after
\* its lookup was answered; the other has written nothing
C35_Witness ==
    /\ pc["c1"] = "wait" /\ OpName("c1") = "Connect" /\ op["c1"].stage = "connect"
    /\ op["c1"].fd = 2 /\ op["c1"].cmd[2] = "7"
    /\ last = LineDomain
    /\ pc["c2"] = "idle"

----------------------------------------------------------------------------
(* Claims about the failures of Send *)

\* C36: when the wait for the ready-to-send marker ends in a device error or
\* a timeout, Send returns 0 bytes and that failure, and the command is the
\* only thing it has written: the payload is not; when the payload is written
\* and the wait for the confirmation ends in ERROR or a timeout, Send returns
\* 0 bytes and that failure.
C36_SendFailure ==
    [][\A c \in Callers :
          /\ (InSend(c, "stage") /\ pc[c] = "cont" /\ outcome[c] # "ok"
                /\ pc'[c] # pc[c])
                => /\ pc'[c] = "idle"
                   /\ res'.op = "Send" /\ res'.n = 0
                   /\ res'.err = OutcomeErr(outcome[c])
                   /\ res'.cmds = 1
                   /\ owed' = owed
          /\ (InSend(c, "payload") /\ pc[c] = "cont" /\ outcome[c] # "ok"
                /\ pc'[c] # pc[c])
                => /\ pc'[c] = "idle"
                   /\ res'.op = "Send" /\ res'.n = 0
                   /\ res'.err = OutcomeErr(outcome[c])
                   /\ res'.cmds = 2]_vars

\* Send on a connected socket timed out waiting for the ready-to-send marker
C36_Witness ==
    /\ res.op = "Send" /\ res.n = 0 /\ res.err = ErrTimedOut /\ res.cmds = 1
    /\ Occupied(res.fd) /\ sockets[res.fd].id # <<>>

----------------------------------------------------------------------------
(* SpecUnits: the parser on every kind of unit.  Caller c1 has written a    *)
(* command with execute or send and waits; the device sends one or two      *)
(* units: the ready marker, OK, ERROR, a plain line, a plain event, a       *)
(* disconnect, and records for a connected and for an unknown id.  The      *)
(* reader takes them byte by byte.                                          *)

UnitSeed == sEVENT \o <<"S","o","c","k","e","t","S","e","e","d",",","2",",","1">> \o CRLF
Units ==
    { UnitReady, UnitOK, UnitERROR, LineConID1 \o CRLF, CRLF, UnitSeed,
      RecDisconnect(<<"3">>),
      RecDown(<<"3">>, <<"5">>, DataHello),
      RecDown(<<"3">>, <<"8">>, DataEmbedded),
      RecDown(<<"4">>, <<"4">>, DataLeading) }
MaxUnits == 2
UnitStreams == { Concat(us) : us \in UNION { [1..n -> Units] : n \in 1..MaxUnits } }

InitUnits ==
    /\ sockets = [fd \in Fds |-> IF fd = 0 THEN Connected(<<"3">>) ELSE NULL]
    /\ uartRx \in UnitStreams
    /\ buf = <<>>
    /\ last = <<>>
    /\ reader = "sleep"
    /\ pend = NoPend
    /\ uartMu = NONE
    /\ dLock = NONE
    /\ readers = 1
    /\ pc = [c \in Callers |-> IF c = "c1" THEN "wait" ELSE "idle"]
    /\ \E name \in {"execute", "send"} :
          op = [c \in Callers |->
                  IF c = "c1" THEN [name |-> name, cmd |-> <<"AT">>] ELSE NoRes]
    /\ outcome = [c \in Callers |-> NONE]
    /\ owed = 1
    /\ devLeft = 0
    /\ answered = NONE
    /\ res = NoRes
    /\ enq = [fd \in Fds |-> <<>>]
    /\ got = [fd \in Fds |-> <<>>]
    /\ fed = <<>>

SpecUnits == InitUnits /\ [][NextReady]_vars

\* b carries a terminated line that begins like a SocketDown record
DownPrefixed(b) == HasSuffix(b, CRLF) /\ HasPrefix(Sofar(b), sEventSocketDown)

\* the socket findSocket comes to for id: every slot before it is occupied
Finds(id) ==
    \E fd \in Fds :
        /\ Occupied(fd) /\ sockets[fd].id = id
        /\ \A g \in 0..(fd - 1) : Occupied(g) /\ sockets[g].id # id

\* b is a unit the parser finalizes: the ready marker alone in the buffer, a
\* terminated line that is no SocketDown (OK, ERROR, a plain event, a plain
\* line), or a SocketDown record of the declared length for a socket found
Finalized(b) ==
    \/ b = <<">">>
    \/ HasSuffix(b, CRLF) /\ ~DownPrefixed(b)
    \/ IsDownLine(b) /\ Declared(b) = Len(Field4(b)) /\ Finds(DownId(b))

\* b is a unit still incomplete: no terminator yet, or a SocketDown record
\* whose payload is not of the declared length
Partial(b) ==
    \/ ~HasSuffix(b, CRLF)
    \/ IsDownLine(b) /\ Declared(b) # Len(Field4(b))

\* C37: when the byte the reader has read completes a unit the parser
\* finalizes (the ready marker, a delivered SocketDown record, a plain event,
\* OK, ERROR, a plain line) the parse buffer is empty afterwards, so the next
\* byte starts a new unit; the buffer is non-empty after a byte only when the
\* unit is incomplete, and then it holds every byte of the unit so far.
C37_FinalizedResets ==
    [][ReadsByte =>
          /\ Finalized(NextBuf) => buf' = <<>>
          /\ (buf' # <<>> /\ reader' # "panic")
                => Partial(NextBuf) /\ buf' = NextBuf]_vars

\* a record whose payload holds CR LF was kept until complete and delivered,
\* and the OK after it was parsed from an empty buffer
C37_Witness ==
    /\ fed = RecDown(<<"3">>, <<"8">>, DataEmbedded) \o UnitOK
    /\ buf = <<>>
    /\ enq[0] = <<DataEmbedded>>
    /\ reader = "ok"

----------------------------------------------------------------------------
(* Claims about the routing of units *)

Signals == {"ok", "err", "txReady"}

\* b is a terminated +EVENT: unit, a SocketDown among them
EventUnit(b) == HasSuffix(b, CRLF) /\ HasPrefix(Sofar(b), sEVENT)
\* b is a terminated OK or ERROR unit
TerminalLine(b) ==
    /\ HasSuffix(b, CRLF)
    /\ ~HasPrefix(Sofar(b), sEVENT)
    /\ HasPrefix(Sofar(b), sOK) \/ HasPrefix(Sofar(b), sERROR)

\* C38: an +EVENT: unit, a SocketDown among them, parsed while a command
\* waits sends nothing on d.ok, d.err or d.txReady, leaves d.last as it is and
\* ends no caller's wait; an OK or ERROR unit enqueues nothing and changes no
\* socket; the reader comes to signal only by reading OK, ERROR or the ready
\* marker, and a wait ends with an outcome other than the timeout only by
\* receiving that signal.
C38_EventsCompleteNothing ==
    [][/\ (ReadsByte /\ EventUnit(NextBuf))
             => /\ reader' \notin Signals
                /\ last' = last
                /\ outcome' = outcome /\ pc' = pc /\ res' = res
       /\ (ReadsByte /\ TerminalLine(NextBuf))
             => /\ enq' = enq /\ sockets' = sockets
                /\ reader' \in {"ok", "err"}
       /\ (reader' \in Signals /\ reader' # reader)
             => /\ ReadsByte
                /\ NextBuf = <<">">> \/ TerminalLine(NextBuf)
       /\ \A c \in Callers :
             (outcome'[c] # outcome[c] /\ outcome'[c] \notin {NONE, "timeout"})
                => /\ pc[c] = "wait"
                   /\ reader \in Signals /\ reader' = "run"]_vars

\* a record was delivered while execute waited, and the OK after it ended
\* the wait
C38_Witness ==
    /\ fed = RecDown(<<"3">>, <<"5">>, DataHello) \o UnitOK
    /\ enq[0] = <<DataHello>>
    /\ res.op = "execute" /\ res.err = "nil"
    /\ pc["c1"] = "idle"

----------------------------------------------------------------------------
(* Claims about the transport *)

\* the reader is inside the inner loop of serviceUART
ReaderInLoop == reader \in {"run", "ok", "err", "txReady", "rx"}
\* bytes of the transport have been read
ReadsTransport == Len(uartRx') < Len(uartRx)

\* C39: the reader is inside its loop, where it reads the transport, only
\* while it holds d.uartMu; bytes are taken from the transport only by the
\* reader, in its loop and holding d.uartMu; a caller writes a command or a
\* payload only having taken d.uartMu, which is free then: the reader is
\* outside its loop, and no two callers write in one step.
C39_TransportUnderLock ==
    /\ [](ReaderInLoop => uartMu = "reader")
    /\ [][/\ ReadsTransport
                => /\ reader = "run" /\ uartMu = "reader"
                   /\ pc' = pc
          /\ \A c \in Callers :
                WritesCmd(c)
                   => /\ uartMu = NONE
                      /\ ~ReaderInLoop
                      /\ uartRx' = uartRx
                      /\ \A o \in Callers \ {c} : ~WritesCmd(o)]_vars

\* a caller stands before its write while the reader, holding d.uartMu, is in
\* its loop with bytes to read
C39_Witness ==
    /\ reader = "run" /\ uartMu = "reader" /\ uartRx # <<>>
    /\ pc["c1"] = "write"

----------------------------------------------------------------------------
(* Claims about operations without wire traffic *)

\* the call that has returned was made with the descriptor of a socket
OnSocket(name) == res'.op = name /\ res'.fd \in Fds /\ Occupied(res'.fd)
\* caller c calls Close on the socket of slot fd, which has no id
ClosesUnconnected(c, fd) ==
    Occupied(fd) /\ sockets[fd].id = <<>> /\ BeginClose(c, fd)

\* C40: Close on a socket whose id is empty writes no command, succeeds and
\* empties the slot, leaving every other slot as it is; Bind on a valid
\* descriptor writes no command, succeeds and changes nothing but the local
\* address of that socket.
C40_NoWireTraffic ==
    [][/\ \A c \in Callers, fd \in Fds :
             ClosesUnconnected(c, fd)
                => /\ res' = [op |-> "Close", fd |-> fd, err |-> "nil", cmds |-> 0]
                   /\ pc'[c] = "idle" /\ dLock' = NONE
                   /\ sockets' = [sockets EXCEPT ![fd] = NULL]
                   /\ last' = last /\ uartRx' = uartRx /\ owed' = owed
       /\ OnSocket("Bind")
             => /\ res'.cmds = 0 /\ res'.err = "nil"
                /\ \E ip \in BindAddrs :
                      sockets' = [sockets EXCEPT ![res'.fd].laddr = ip]
                /\ last' = last /\ uartRx' = uartRx /\ owed' = owed
                /\ enq' = enq /\ got' = got]_vars

\* the socket of descriptor 0 has been closed with no command written, and
\* the socket of descriptor 1 stays in the table
C40_Witness ==
    /\ res.op = "Close" /\ res.err = "nil" /\ res.cmds = 0
    /\ res.fd = 0 /\ ~Occupied(0)
    /\ Occupied(1) /\ ~Occupied(2)
====
